---- MODULE Spec2Model ----
(***************************************************************************)
(* fossa-nx: the run of the root command (cmd/fossa-nx/main.go): project   *)
(* resolution (internal/nx), the worker pool of processProjectsOptimized   *)
(* with its feeder, workers, closer and collector, the Stats counters, the *)
(* notifications and the exit status (Spec, LiveSpec); Stats.recordResult  *)
(* under concurrent callers and Stats.print (StatsSpec); the change        *)
(* detection of internal/nx/changes.go with its two Once caches            *)
(* (ChangeSpec); nx.GetProjects with its cache under concurrent callers    *)
(* (InventorySpec); nx.GetProjectsFromList (ListSpec); one job from the    *)
(* flags of the run to fossa.RunAnalysis (JobSpec); Stats.initialize after *)
(* a run (InitializeSpec); nx.GetProjects in affected mode (AffectedSpec); *)
(* the feeder of the earlier processProjectsOptimized (EarlySpec);         *)
(* fossa.RunAnalysis and the project directory (DiskSpec).                 *)
(***************************************************************************)
EXTENDS Integers, Sequences, FiniteSets, TLC

\* ------------------------------------------------------------- bounds
MaxProjects == 4
MaxWorkers == 2
MaxListLen == 3
\* workers * projects of the runs explored
MaxLoad == 6
\* Stats: concurrent recordResult callers, largest duration, largest
\* vulnerability count of one result
MaxCallers == 2
MaxDuration == 3
MaxVulns == 1
\* Change detection: ShouldSkipProject calls in one process
MaxCalls == 3

\* ------------------------------------------------------------ strings
\* A string is a sequence of one-character strings; a project name is a
\* string without comma and space.
Letters == <<"a", "b", "c", "d", "e", "f">>

AllNames == [i \in 1..MaxProjects |-> <<Letters[i]>>]

NameSet == {AllNames[i] : i \in 1..MaxProjects}

ListChars == {"a", "b", ",", " "}

Strings(n) == UNION {[1..k -> ListChars] : k \in 0..n}

Range(s) == {s[i] : i \in 1..Len(s)}

\* strings.Contains(s, ",")
ContainsComma(s) == \E i \in 1..Len(s) : s[i] = ","

\* strings.Split(s, ","): the pieces between the commas, empty ones kept
RECURSIVE SplitComma(_)
SplitComma(s) ==
    IF ~ContainsComma(s)
    THEN <<s>>
    ELSE LET k == CHOOSE i \in 1..Len(s) :
                     s[i] = "," /\ \A j \in 1..(i - 1) : s[j] # ","
         IN  <<SubSeq(s, 1, k - 1)>> \o SplitComma(SubSeq(s, k + 1, Len(s)))

\* strings.TrimSpace(s)
RECURSIVE TrimSpace(_)
TrimSpace(s) ==
    IF s = <<>> THEN s
    ELSE IF s[1] = " " THEN TrimSpace(Tail(s))
    ELSE IF s[Len(s)] = " " THEN TrimSpace(SubSeq(s, 1, Len(s) - 1))
    ELSE s

\* ------------------------------------------------------ resolution (nx)
\* The outcome of an external nx query: an error or a list of names.
NxError == [err |-> TRUE, projects |-> <<>>]

NxOk(ps) == [err |-> FALSE, projects |-> ps]

\* A GetProjects that answers a failed nx command with the empty list.
GetProjectsErrorAsEmpty(out) == IF out.err THEN NxOk(<<>>) ELSE out

\* nx.GetProjects("", "", true) / nx.GetProjects(base, head, false): the
\* non-empty lines of the tool's output, or the tool's error.
GetProjects(out) == out

\* mapping.IsProjectMapped: false when the configuration failed to load.
IsProjectMapped(config, p) ==
    IF config.err THEN FALSE ELSE p \in config.projects

\* The projects of a list that are mapped / not mapped, in list order.
RECURSIVE FilterMapped(_, _, _)
FilterMapped(config, ps, want) ==
    IF ps = <<>> THEN <<>>
    ELSE (IF IsProjectMapped(config, Head(ps)) = want THEN <<Head(ps)>> ELSE <<>>)
         \o FilterMapped(config, Tail(ps), want)

\* The loop of GetProjectsFromList with the name looked up before it is
\* trimmed.
RECURSIVE PartitionListUntrimmed(_, _, _)
PartitionListUntrimmed(requested, projectMap, wantValid) ==
    IF requested = <<>> THEN <<>>
    ELSE LET trimmedProject == TrimSpace(Head(requested))
             rest == PartitionListUntrimmed(Tail(requested), projectMap, wantValid)
         IN  IF trimmedProject = <<>> THEN rest
             ELSE IF (Head(requested) \in projectMap) = wantValid
                  THEN <<trimmedProject>> \o rest
                  ELSE rest

\* The loop of nx.GetProjectsFromList over the requested names.
RECURSIVE PartitionList(_, _, _)
PartitionList(requested, projectMap, wantValid) ==
    IF requested = <<>> THEN <<>>
    ELSE LET trimmedProject == TrimSpace(Head(requested))
             rest == PartitionList(Tail(requested), projectMap, wantValid)
         IN  IF trimmedProject = <<>> THEN rest
             ELSE IF (trimmedProject \in projectMap) = wantValid
                  THEN <<trimmedProject>> \o rest
                  ELSE rest

\* nx.GetProjectsFromList(projectsList): valid, invalid, err
GetProjectsFromList(projectsList, nxAll) ==
    LET all == GetProjects(nxAll)
    IN  IF all.err
        THEN [err |-> TRUE, valid |-> <<>>, invalid |-> <<>>]
        ELSE LET projectMap == Range(all.projects)
                 requested == SplitComma(projectsList)
             IN  [err |-> FALSE,
                  valid |-> PartitionList(requested, projectMap, TRUE),
                  invalid |-> PartitionList(requested, projectMap, FALSE)]

Fatal == [kind |-> "fatal", projects |-> <<>>]

Resolved(ps) == [kind |-> "ok", projects |-> ps]

\* A flag check that looks at --all only.
FlagConflictAllOnly(projectName, allProjects, base, head) ==
    projectName # <<>> /\ allProjects

\* Run, the mutually exclusive flags: --project with --all, --base or --head
FlagConflict(projectName, allProjects, base, head) ==
    projectName # <<>> /\ (allProjects \/ (base # "" \/ head # ""))

\* Run, --project with a comma-separated list
ResolveList(projectName, includeUnmapped, nxAll, config) ==
    LET r == GetProjectsFromList(projectName, nxAll)
    IN  IF r.err THEN Fatal
        ELSE IF Len(r.valid) = 0 THEN Fatal
        ELSE IF ~includeUnmapped
             THEN LET mappedProjects == FilterMapped(config, r.valid, TRUE)
                  IN  IF Len(mappedProjects) = 0 THEN Fatal
                      ELSE Resolved(mappedProjects)
             ELSE Resolved(r.valid)

\* Run, --project with a single name
ResolveSingle(projectName, includeUnmapped, nxAll, config) ==
    LET all == GetProjects(nxAll)
    IN  IF all.err THEN Fatal
        ELSE IF projectName \notin Range(all.projects) THEN Fatal
        ELSE IF ~includeUnmapped /\ ~IsProjectMapped(config, projectName) THEN Fatal
        ELSE Resolved(<<projectName>>)

\* Run, all projects or the affected ones, filtered by the mapping
ResolveCandidates(includeUnmapped, nxOut, config) ==
    LET candidates == GetProjects(nxOut)
    IN  IF candidates.err THEN Fatal
        ELSE LET ps == IF ~includeUnmapped
                       THEN FilterMapped(config, candidates.projects, TRUE)
                       ELSE candidates.projects
             IN  IF Len(ps) = 0
                 THEN [kind |-> "none", projects |-> <<>>]
                 ELSE Resolved(ps)

\* The nx queries of the resolution: none before the flag check; past it
\* one GetProjects call in each of the three branches (inside
\* GetProjectsFromList for a list).
NxQueries(projectName, allProjects, base, head) ==
    IF FlagConflict(projectName, allProjects, base, head) THEN 0 ELSE 1

\* Run, from the flag check to the resolved project list
ResolveProjects(projectName, allProjects, base, head, includeUnmapped, nxOut, config) ==
    IF FlagConflict(projectName, allProjects, base, head) THEN Fatal
    ELSE IF projectName # <<>>
         THEN IF ContainsComma(projectName)
              THEN ResolveList(projectName, includeUnmapped, nxOut, config)
              ELSE ResolveSingle(projectName, includeUnmapped, nxOut, config)
         ELSE ResolveCandidates(includeUnmapped, nxOut, config)

\* ------------------------------------------------------------- inputs
\* The first k names, k = 0..MaxProjects: project names are opaque, so a
\* list of k distinct names stands for every list of k distinct names.
Prefix(k) == SubSeq(AllNames, 1, k)

\* What the nx tool can answer: an error or a list of distinct names.
NxOutputs == {NxError} \cup {NxOk(Prefix(k)) : k \in 0..MaxProjects}

\* The configuration: not loaded, or the set of mapped project names.
Configs == {[err |-> TRUE, projects |-> {}]}
           \cup {[err |-> FALSE, projects |-> Range(Prefix(k))] : k \in 0..MaxProjects}

Revs == {"", "main"}

\* ------------------------------------------------------------ Stats
\* Stats.initialize(projectCount)
initialize(projectCount) ==
    [totalProjects |-> projectCount, successful |-> 0, failed |-> 0]

\* A recordResult that counts the successes and forgets the failures.
recordResultSuccessOnly(s, success) ==
    IF success THEN [s EXCEPT !.successful = @ + 1] ELSE s

\* Stats.recordResult(success, ...): the success / failure counters
recordResult(s, success) ==
    IF success
    THEN [s EXCEPT !.successful = @ + 1]
    ELSE [s EXCEPT !.failed = @ + 1]

\* int64(time.Hour), the initial minDuration, with durations counted in
\* half hours
Hour == 2

\* The durations, in the same unit, that a call can report: up to and above
\* the initial minDuration.
Durations == 0..MaxDuration

\* The zero value of the Stats struct
ZeroStats ==
    [totalProjects |-> 0, successful |-> 0, failed |-> 0, vulnerabilities |-> 0,
     totalDuration |-> 0, maxDuration |-> 0, minDuration |-> 0]

\* Stats.initialize(projectCount) on all the fields of the struct: it stores
\* every field but vulnerabilities.
initializeStats(s, projectCount) ==
    [s EXCEPT !.totalProjects = projectCount, !.successful = 0, !.failed = 0,
              !.totalDuration = 0, !.maxDuration = 0, !.minDuration = Hour]

\* Stats.recordResult(success, duration, vulnCount) run alone, from its first
\* statement to its last: the single-threaded computation.
recordResultAlone(s, success, duration, vulnCount) ==
    LET counted == recordResult(s, success)
    IN  [counted EXCEPT
            !.vulnerabilities = IF vulnCount > 0 THEN @ + vulnCount ELSE @,
            !.totalDuration = @ + duration,
            !.maxDuration = IF duration <= @ THEN @ ELSE duration,
            !.minDuration = IF duration < @ THEN duration ELSE @]

\* No duration has been passed to recordResult (-1: none), and initialize
\* has not been called again on the used struct.
NoDurations == [least |-> -1, most |-> -1, inits |-> 0]

\* One line of the statistics report: printed or not, and the value printed
Line(shown, value) == [shown |-> shown, value |-> value]

\* Stats.print(): the average line is always printed (0 when nothing was
\* recorded), the minimum and maximum lines only with at least one result.
print(s) ==
    LET count == s.successful + s.failed
        avgDuration == IF count > 0 THEN s.totalDuration \div count ELSE 0
    IN  [printed |-> TRUE,
         count |-> count,
         avg |-> Line(TRUE, avgDuration),
         min |-> Line(count > 0, IF count > 0 THEN s.minDuration ELSE 0),
         max |-> Line(count > 0, IF count > 0 THEN s.maxDuration ELSE 0)]

\* Nothing printed yet
NoReport ==
    [printed |-> FALSE, count |-> 0, avg |-> Line(FALSE, 0),
     min |-> Line(FALSE, 0), max |-> Line(FALSE, 0)]

\* ------------------------------------- change detection (internal/nx)
\* strings.HasPrefix
HasPrefix(str, prefix) ==
    /\ Len(prefix) <= Len(str)
    /\ SubSeq(str, 1, Len(prefix)) = prefix

\* strings.ReplaceAll(str, old, new) for one-character old and new
ReplaceAll(str, old, new) ==
    [i \in 1..Len(str) |-> IF str[i] = old THEN new ELSE str[i]]

\* The lines git diff can list, the last one with a backslash, and the
\* project roots of the graph: root pq shares a string prefix with root p.
FilePaths ==
    << <<"p", "/", "x">>, <<"p", "q">>, <<"p", "q", "x">>, <<"p", "q", "\\", "x">> >>

\* The lines of FilePaths with an index in S, in order
Lines(S) ==
    LET pick[k \in 0..Len(FilePaths)] ==
            IF k = 0 THEN <<>>
            ELSE IF k \in S THEN Append(pick[k - 1], FilePaths[k]) ELSE pick[k - 1]
    IN  pick[Len(FilePaths)]

\* A project node of the graph: name and data.root
Node(name, root) == [name |-> name, root |-> root]

GraphNodes == {Node(AllNames[1], <<"p">>), Node(AllNames[2], <<"p", "q">>)}

\* What `git diff --name-only` answers: an error, or some of the lines.
DiffOutputs ==
    {[err |-> TRUE, files |-> <<>>]}
    \cup {[err |-> FALSE, files |-> Lines(S)] : S \in SUBSET (1..Len(FilePaths))}

\* What the graph query answers: whether the temporary file can be created,
\* whether `nx graph` and the fallback `nx dep-graph` fail, whether the file
\* written can be read and parsed, and the nodes in it (one graph has a root
\* written with a backslash). A step that is not reached has no answer: its
\* field is FALSE, and the nodes are empty when they are not read.
GraphOutputs ==
    {g \in [tempErr : BOOLEAN, primaryErr : BOOLEAN, fallbackErr : BOOLEAN,
            parseErr : BOOLEAN,
            nodes : {{}, GraphNodes, {Node(AllNames[1], <<"p">>)},
                     {Node(AllNames[1], <<"p">>),
                      Node(AllNames[3], <<"p", "\\", "x">>)}}] :
        /\ g.tempErr => ~g.primaryErr
        /\ ~g.primaryErr => ~g.fallbackErr
        /\ (g.tempErr \/ g.fallbackErr) => ~g.parseErr
        /\ (g.nodes = {}) <=> (g.tempErr \/ g.fallbackErr \/ g.parseErr)}

\* The package variables before the first call: both caches nil (a nil
\* slice has length 0, a nil map no entries), neither Once done. The other
\* fields are history: the external commands run, the pair of the call that
\* ran the diff, whether the diff, the graph query and the creation of the
\* temporary file failed, the number of GetProjectGraph calls and the number
\* of calls made from outside the package.
NoCaches ==
    [changedFilesOnce |-> FALSE, changedFilesCache |-> <<>>,
     projectGraphOnce |-> FALSE, projectGraphCache |-> {},
     queries |-> <<>>, diffFailed |-> FALSE, graphFailed |-> FALSE,
     pair |-> <<"", "">>, tempFailed |-> FALSE, graphCalls |-> 0, calls |-> 0]

\* The lines of the diff with their backslashes replaced
SlashPaths(lines) ==
    [i \in 1..Len(lines) |-> ReplaceAll(lines[i], "\\", "/")]

\* GetChangedFiles(base, head): the package state after the call, the files
\* returned and the error returned. err is a local of the call: it is set
\* only when this call runs the Once body.
GetChangedFiles(c, base, head, diffOut) ==
    IF ~c.changedFilesOnce
    THEN IF diffOut.err
         THEN [c |-> [c EXCEPT !.changedFilesOnce = TRUE, !.diffFailed = TRUE,
                               !.pair = <<base, head>>,
                               !.queries = Append(@, "diff")],
               files |-> <<>>, err |-> TRUE]
         ELSE LET changedFiles == SlashPaths(diffOut.files)
              IN  [c |-> [c EXCEPT !.changedFilesOnce = TRUE,
                                   !.changedFilesCache = changedFiles,
                                   !.pair = <<base, head>>,
                                   !.queries = Append(@, "diff")],
                   files |-> changedFiles, err |-> FALSE]
    ELSE [c |-> c, files |-> c.changedFilesCache, err |-> FALSE]

\* A Once body that gives up when nx graph fails, without the fallback.
GraphQueryNoFallback(c, graphOut) ==
    LET asked == IF graphOut.tempErr THEN c.queries ELSE Append(c.queries, "graph")
    IN  IF graphOut.tempErr \/ graphOut.primaryErr \/ graphOut.parseErr
        THEN [c |-> [c EXCEPT !.projectGraphOnce = TRUE, !.graphFailed = TRUE,
                              !.tempFailed = graphOut.tempErr,
                              !.queries = asked],
              graph |-> c.projectGraphCache, err |-> TRUE]
        ELSE [c |-> [c EXCEPT !.projectGraphOnce = TRUE,
                              !.projectGraphCache = graphOut.nodes,
                              !.queries = asked],
              graph |-> graphOut.nodes, err |-> FALSE]

\* The body of projectGraphOnce.Do in a GetProjectGraph call: the temporary
\* file, nx graph, on failure nx dep-graph once, then the file is read and
\* parsed. err is a local of the call here too.
GraphQuery(c, graphOut) ==
    LET asked == IF graphOut.tempErr THEN c.queries
                 ELSE IF graphOut.primaryErr
                      THEN c.queries \o <<"graph", "dep-graph">>
                      ELSE Append(c.queries, "graph")
        failed == \/ graphOut.tempErr
                  \/ graphOut.primaryErr /\ graphOut.fallbackErr
                  \/ graphOut.parseErr
    IN  IF failed
        THEN [c |-> [c EXCEPT !.projectGraphOnce = TRUE, !.graphFailed = TRUE,
                              !.tempFailed = graphOut.tempErr,
                              !.queries = asked],
              graph |-> c.projectGraphCache, err |-> TRUE]
        ELSE [c |-> [c EXCEPT !.projectGraphOnce = TRUE,
                              !.projectGraphCache = graphOut.nodes,
                              !.queries = asked],
              graph |-> graphOut.nodes, err |-> FALSE]

\* A GetProjectGraph that queries on every call.
GetProjectGraphEveryTime(c, graphOut) ==
    GraphQuery([c EXCEPT !.graphCalls = @ + 1], graphOut)

\* GetProjectGraph(): the body runs in the first call only; every call
\* returns projectGraphCache and its own err.
GetProjectGraph(c, graphOut) ==
    LET called == [c EXCEPT !.graphCalls = @ + 1]
    IN  IF ~c.projectGraphOnce
        THEN GraphQuery(called, graphOut)
        ELSE [c |-> called, graph |-> c.projectGraphCache, err |-> FALSE]

\* A prefix test that ignores the path boundary.
InProjectNaivePrefix(file, projectRoot) == HasPrefix(file, projectRoot)

\* Whether a changed file is in the directory of a project root
InProject(file, projectRoot) ==
    HasPrefix(file, projectRoot \o <<"/">>) \/ file = projectRoot

\* GetChangedProjectsUsingGraph(base, head): the set of changed project names
GetChangedProjectsUsingGraph(c, base, head, diffOut, graphOut) ==
    LET f == GetChangedFiles(c, base, head, diffOut)
    IN  IF f.err THEN [c |-> f.c, projects |-> {}, err |-> TRUE]
        ELSE IF Len(f.files) = 0 THEN [c |-> f.c, projects |-> {}, err |-> FALSE]
        ELSE LET g == GetProjectGraph(f.c, graphOut)
             IN  IF g.err THEN [c |-> g.c, projects |-> {}, err |-> TRUE]
                 ELSE [c |-> g.c,
                       projects |-> {node.name : node \in
                           {n \in g.graph : \E i \in 1..Len(f.files) :
                               InProject(f.files[i],
                                         ReplaceAll(n.root, "\\", "/"))}},
                       err |-> FALSE]

\* ShouldSkipProject(projectName, base, head, forceAll)
ShouldSkipProject(c, projectName, base, head, forceAll, diffOut, graphOut) ==
    IF forceAll THEN [c |-> c, skip |-> FALSE]
    ELSE IF base = "" /\ head = "" THEN [c |-> c, skip |-> FALSE]
    ELSE LET changed == GetChangedProjectsUsingGraph(c, base, head, diffOut, graphOut)
         IN  IF changed.err THEN [c |-> changed.c, skip |-> FALSE]
             ELSE [c |-> changed.c, skip |-> projectName \notin changed.projects]

\* The answers git diff can give to a call: the command only runs in the
\* Once body, so once that is done its answer is of no account.
DiffNow(c) ==
    IF c.changedFilesOnce THEN {[err |-> TRUE, files |-> <<>>]} ELSE DiffOutputs

\* What git diff would answer for the pair of a call. The Once body runs
\* the command; a later call does not, and there three answers stand for
\* all: an error, no line, every line.
TruthNow(c) ==
    IF c.changedFilesOnce
    THEN {[err |-> TRUE, files |-> <<>>], [err |-> FALSE, files |-> <<>>],
          [err |-> FALSE, files |-> FilePaths]}
    ELSE DiffOutputs

\* The answers the graph query can give to a call, likewise
GraphNow(c) ==
    IF c.projectGraphOnce
    THEN {[tempErr |-> FALSE, primaryErr |-> FALSE, fallbackErr |-> FALSE,
           parseErr |-> FALSE, nodes |-> GraphNodes]}
    ELSE GraphOutputs

\* The latest call from outside the package was no ShouldSkipProject call
\* (n is 1 when it was). touched: the call changed the package state; ok:
\* it got a change set without error and git diff answers for its own pair;
\* changed: the project has a file in that answer.
NoCall ==
    [n |-> 0, projectName |-> <<>>, base |-> "", head |-> "", forceAll |-> FALSE,
     skip |-> FALSE, touched |-> FALSE, ok |-> FALSE, changed |-> FALSE]

\* The latest call from outside the package was no direct call of
\* GetChangedFiles, GetProjectGraph or GetChangedProjectsUsingGraph (n is 1
\* when it was). truth is what git diff answers for
\* the pair of the call at the time of the call, asked the number of
\* external commands the call ran.
NoReturn ==
    [n |-> 0, fn |-> "", base |-> "", head |-> "", files |-> <<>>, graph |-> {},
     projects |-> {}, err |-> FALSE, asked |-> 0,
     truth |-> [err |-> TRUE, files |-> <<>>],
     query |-> [ran |-> FALSE, tempErr |-> FALSE, primaryErr |-> FALSE,
                fallbackErr |-> FALSE, parseErr |-> FALSE]]

\* ------------------------------------------- the project inventory (nx)
\* The package variables of the inventory cache: nothing loaded, the
\* RWMutex free (writer 0, no reader). invoked and succeeded count the runs
\* of `yarn nx show projects` and those that ended without error; calls
\* counts the GetProjects calls begun.
NoInventory ==
    [allProjectsLoaded |-> FALSE, allProjectsCache |-> <<>>,
     writer |-> 0, readers |-> {},
     invoked |-> 0, succeeded |-> 0, calls |-> 0]

\* A caller outside GetProjects. n is 1 once a call of it has returned; then
\* out is what the call returned, asked whether it ran the command and
\* loadedBefore whether the cache was loaded when the call began.
NotCalled ==
    [pc |-> "idle", n |-> 0, loadedBefore |-> FALSE, asked |-> FALSE,
     out |-> NxError]

\* A GetProjects without the second test of allProjectsLoaded.
NoDoubleCheck(i) == FALSE

\* GetProjects, the test of allProjectsLoaded under the write lock
DoubleCheck(i) == i.allProjectsLoaded

\* GetProjectsFromList has not been called (n is 1 once it has).
NoList ==
    [n |-> 0, projectsList |-> <<>>, universe |-> {}, err |-> FALSE,
     valid |-> <<>>, invalid |-> <<>>]

\* --------------------------------------------------- a job, end to end
\* fossa.RunAnalysis(projectName) step by step: where it returned and with
\* what. "unmapped": the project is not in the configuration, nothing was
\* done; "prepare": the project root, the monorepo root, package.json or
\* the symlink failed before any fossa command; "fossa": fossa analyze was
\* run, and it or fossa test failed or both passed.
RunAnalysisSteps(cfg, projectName) ==
    IF ~IsProjectMapped(cfg, projectName)
    THEN {[stage |-> "unmapped", err |-> TRUE]}
    ELSE {[stage |-> "prepare", err |-> TRUE],
          [stage |-> "fossa", err |-> TRUE],
          [stage |-> "fossa", err |-> FALSE]}

\* The branch of Run the flags select
Mode(projectName, allProjects) ==
    IF projectName # <<>>
    THEN IF ContainsComma(projectName) THEN "list" ELSE "single"
    ELSE IF allProjects THEN "all" ELSE "affected"

\* Before Run. n is 1 once a dispatched project has been analyzed; then
\* project, changed (it has a changed file between base and head), stage
\* and err describe that analysis.
NoJob ==
    [pc |-> "start", mode |-> "", includeUnmapped |-> FALSE, revs |-> FALSE,
     config |-> [err |-> TRUE, projects |-> {}], projects |-> <<>>,
     n |-> 0, project |-> <<>>, changed |-> TRUE, stage |-> "", err |-> FALSE]

\* ------------------------------------------- the two revision queries
\* fmt.Sprintf(format, args...); a plain word is a format without argument
Sprintf(format, args) == [format |-> format, args |-> args]

\* The arguments GetProjects(base, head, false) gives to `yarn nx`
AffectedArgs(base, head) ==
    <<Sprintf("show", <<>>), Sprintf("projects", <<>>),
      Sprintf("--affected", <<>>), Sprintf("-t", <<>>), Sprintf("build", <<>>)>>
    \o (IF base # "" /\ head # ""
        THEN <<Sprintf("--base=%s", <<base>>), Sprintf("--head=%s", <<head>>)>>
        ELSE <<>>)

\* GetProjects(base, head, false) when the command printed lines: an error
\* of the command is returned; else the lines that are not empty, in order.
GetProjectsAffected(base, head, out) ==
    IF out.err
    THEN [args |-> AffectedArgs(base, head), err |-> TRUE, projects |-> <<>>]
    ELSE [args |-> AffectedArgs(base, head), err |-> FALSE,
          projects |-> SelectSeq(out.lines, LAMBDA p : p # <<>>)]

\* The arguments the Once body of GetChangedFiles(base, head) gives to git
DiffArgs(base, head) ==
    <<Sprintf("diff", <<>>), Sprintf("--name-only", <<>>)>>
    \o (IF base # "" /\ head # ""
        THEN <<Sprintf("%s..%s", <<base, head>>)>>
        ELSE IF base # ""
             THEN <<Sprintf("%s", <<base>>)>>
             ELSE <<Sprintf("HEAD", <<>>)>>)

\* What `yarn nx show projects --affected` can print: an error, or up to
\* MaxListLen lines, some of them empty.
AffectedOutputs ==
    {[err |-> TRUE, lines |-> <<>>]}
    \cup {[err |-> FALSE, lines |-> l] :
            l \in UNION {[1..k -> {<<>>, AllNames[1], AllNames[2]}] :
                            k \in 0..MaxListLen}}

\* GetProjects(base, head, false) has not been called (n is 1 once it has).
NoAffected ==
    [n |-> 0, base |-> "", head |-> "", lines |-> <<>>, args |-> <<>>,
     err |-> FALSE, projects |-> <<>>]


\* ------------------------------- the earlier processProjectsOptimized
\* Before the call. projectCh is the job channel of capacity workers*2,
\* alive the workers that have not returned, idx the feeder's range index;
\* observed (history): the feeder has taken the ctx.Done case of its
\* select; sentAfter (history): it has sent a project after that.
NoEarly ==
    [pc |-> "start", projects |-> <<>>, workers |-> 0, alive |-> 0,
     ctxDone |-> FALSE, projectCh |-> <<>>, closed |-> FALSE,
     fpc |-> "unstarted", idx |-> 1, observed |-> FALSE, sentAfter |-> FALSE]

\* ------------------------------------ RunAnalysis and the project directory
\* Before a RunAnalysis call. packageJson is the content of package.json in
\* the project directory ("absent", "original", "minimal", "merged",
\* "partial"), nodeModules what is at node_modules ("absent", "directory",
\* "symlink"); pkgBefore and nmBefore (history) are what the call found;
\* the other fields are the locals of the call and where it returned.
NoDisk ==
    [pc |-> "idle", packageJson |-> "absent", nodeModules |-> "absent",
     pkgBefore |-> "absent", nmBefore |-> "absent",
     packageJsonExists |-> FALSE, originalPackageJson |-> "",
     nodeModulesCreated |-> FALSE, exit |-> "", err |-> FALSE]

\* ------------------------------------------------------------- state
VARIABLES
    mpc,             \* position of Run (the main goroutine)
    projects,        \* the resolved project list
    workers,         \* maxConcurrent after defaulting
    spawned,         \* loop counter i of the spawn loop
    ctxDone,         \* the timeout context is cancelled
    projectCh,       \* buffered job channel
    projectChClosed,
    resultCh,        \* buffered result channel
    resultChClosed,
    wg,              \* WaitGroup counter
    wpc,             \* position of each optimizedWorker goroutine
    wjob,            \* project a worker holds
    werr,            \* whether its RunAnalysis returned an error
    fpc,             \* position of the feeder goroutine
    fidx,            \* index of the feeder's range loop
    cpc,             \* position of the goroutine that closes resultCh
    cur,             \* the result the collector has received
    results,         \* the slice processProjectsOptimized returns
    stats,
    exitCode,        \* -1 while the process runs
    scanCalls,       \* history: RunAnalysis calls per project name
    firedEarly,      \* history: the deadline fired before any scan returned
    firedInFlight,   \* history: the deadline fired during a RunAnalysis call
    resolved,        \* how the resolution phase ended: "fatal", "none", "ok"
    nxFailed,        \* the external nx query of the resolution returned an error
    config,          \* mapping: configError / the projects of globalConfig
    lookups,         \* history: mapping.IsProjectMapped has been called
    flags,           \* history: conflicting flags were given; nx queries made
    sendLog,         \* history: the results in the order the workers sent them
    notified,        \* the notifier flags and the notifier calls made
    st,              \* a Stats struct shared by concurrent recordResult calls
    rec,             \* each recordResult call: position, arguments, local old
    ref,             \* history: the same calls applied one after the other,
                     \* the smallest and the largest duration passed
    report,          \* what Stats.print() printed
    caches,          \* internal/nx: the two Once and the two caches
    last,            \* the latest ShouldSkipProject call and what it returned
    ret,             \* the latest direct call of another function of changes.go
    inv,             \* nx: allProjectsCache, allProjectsLoaded, allProjectsMutex
    gp,              \* each caller of nx.GetProjects("", "", true)
    pl,              \* the latest nx.GetProjectsFromList call
    job,             \* a run from its flags to the analysis of one project
    aff,             \* the latest nx.GetProjects(base, head, false) call
    early,           \* the pool of the earlier processProjectsOptimized
    disk             \* each RunAnalysis call and the directory of its project

vars == <<mpc, projects, workers, spawned, ctxDone, projectCh, projectChClosed,
          resultCh, resultChClosed, wg, wpc, wjob, werr, fpc, fidx, cpc, cur,
          results, stats, exitCode, scanCalls, firedEarly, firedInFlight,
          resolved, nxFailed, config, flags, lookups, notified, sendLog,
          st, rec, ref, report,
          inv, gp, pl, job, aff, early, disk,
          caches, last, ret>>

\* The run of the root command
runVars == <<mpc, projects, workers, spawned, ctxDone, projectCh, projectChClosed,
             resultCh, resultChClosed, wg, wpc, wjob, werr, fpc, fidx, cpc, cur,
             results, stats, exitCode, scanCalls, firedEarly, firedInFlight,
             resolved, nxFailed, config, flags, lookups, notified, sendLog>>

\* Stats under concurrent callers
statsVars == <<st, rec, ref, report>>

\* Change detection
changeVars == <<caches, last, ret>>

\* What the run of the root command leaves alone
\* The project inventory (GetProjects) under concurrent callers
libVars == <<inv, gp, pl, job, aff, early, disk>>

auxVars == <<statsVars, changeVars, libVars>>

\* What the resolution phase leaves behind.
resVars == <<resolved, nxFailed, config, flags>>

poolVars == <<ctxDone, projectCh, projectChClosed, resultCh, resultChClosed, wg,
              wpc, wjob, werr, fpc, fidx, cpc, cur, results, scanCalls, firedEarly,
              firedInFlight>>

WorkerIds == 1..(MaxWorkers + 1)

\* The goroutines that call recordResult on the shared Stats
Callers == 1..MaxCallers

\* A caller that has not called yet, or whose call has returned
Idle == [pc |-> "idle", success |-> FALSE, duration |-> 0, vulnCount |-> 0, old |-> 0]


NoName == <<>>

NoResult == [project |-> NoName, err |-> FALSE]

\* No notifier configuration read and no notifier called yet
NoNotification == [email |-> FALSE, github |-> FALSE, calls |-> <<>>]

\* make(chan ..., workers*2)
ChanCap(n) == n * 2

Init ==
    /\ mpc = "start"
    /\ projects = <<>>
    /\ workers = 0
    /\ spawned = 0
    /\ ctxDone = FALSE
    /\ projectCh = <<>>
    /\ projectChClosed = FALSE
    /\ resultCh = <<>>
    /\ resultChClosed = FALSE
    /\ wg = 0
    /\ wpc = [w \in WorkerIds |-> "unstarted"]
    /\ wjob = [w \in WorkerIds |-> NoName]
    /\ werr = [w \in WorkerIds |-> FALSE]
    /\ fpc = "unstarted"
    /\ fidx = 1
    /\ cpc = "unstarted"
    /\ cur = NoResult
    /\ results = <<>>
    /\ stats = [totalProjects |-> 0, successful |-> 0, failed |-> 0]
    /\ exitCode = -1
    /\ scanCalls = [n \in NameSet |-> 0]
    /\ firedEarly = FALSE
    /\ firedInFlight = FALSE
    /\ resolved = ""
    /\ nxFailed = FALSE
    /\ config = [err |-> TRUE, projects |-> {}]
    /\ lookups = FALSE
    /\ flags = [conflict |-> FALSE, queries |-> 0]
    /\ sendLog = <<>>
    /\ notified = NoNotification
    /\ st = initializeStats(ZeroStats, MaxCallers)
    /\ rec = [c \in Callers |-> Idle]
    /\ ref = st @@ NoDurations
    /\ report = NoReport
    /\ caches = NoCaches
    /\ last = NoCall
    /\ ret = NoReturn
    /\ inv = NoInventory
    /\ gp = [c \in Callers |-> NotCalled]
    /\ pl = NoList
    /\ job = NoJob
    /\ aff = NoAffected
    /\ early = NoEarly
    /\ disk = [c \in Callers |-> NoDisk]

\* ------------------------------------------------------ Run: resolution
\* Whether the resolution calls mapping.IsProjectMapped: the mapping filter
\* is reached, with a project to look up.
ConsultsConfig(projectName, allProjects, base, head, includeUnmapped, nxOut) ==
    /\ ~FlagConflict(projectName, allProjects, base, head)
    /\ ~includeUnmapped
    /\ ~nxOut.err
    /\ IF projectName = <<>> THEN Len(nxOut.projects) > 0
       ELSE IF ContainsComma(projectName)
            THEN Len(GetProjectsFromList(projectName, nxOut).valid) > 0
            ELSE projectName \in Range(nxOut.projects)

\* The end of the resolution phase: log.Fatalf, the early return, or on
\* to the pool.
Resolution(r, queryFailed, cfg, consulted) ==
    /\ projects' = r.projects
    /\ mpc' = IF r.kind = "ok" THEN "init" ELSE "exited"
    /\ exitCode' = CASE r.kind = "fatal" -> 1
                     [] r.kind = "none" -> 0
                     [] OTHER -> exitCode
    /\ resolved' = r.kind
    /\ nxFailed' = queryFailed
    /\ config' = cfg
    /\ lookups' = consulted
    /\ UNCHANGED <<auxVars, sendLog, workers, spawned, stats, notified>>
    /\ UNCHANGED poolVars

\* --project together with --all, --base or --head
RunFlagConflict ==
    /\ mpc = "start"
    /\ \E projectName \in Strings(MaxListLen) \ {<<>>}, allProjects \in BOOLEAN,
          base \in Revs, head \in Revs, includeUnmapped \in BOOLEAN,
          nxOut \in NxOutputs, cfg \in Configs :
        /\ allProjects \/ base # "" \/ head # ""
        /\ Resolution(ResolveProjects(projectName, allProjects, base, head,
                                      includeUnmapped, nxOut, cfg),
                      NxQueries(projectName, allProjects, base, head) > 0 /\ nxOut.err,
                      cfg,
                      ConsultsConfig(projectName, allProjects, base, head,
                                     includeUnmapped, nxOut))
        /\ flags' = [conflict |-> TRUE,
                     queries |-> NxQueries(projectName, allProjects, base, head)]

\* --project=<name> or --project=<name,name,...>
RunProjectMode ==
    /\ mpc = "start"
    /\ \E projectName \in Strings(MaxListLen) \ {<<>>}, includeUnmapped \in BOOLEAN,
          nxAll \in NxOutputs, cfg \in Configs :
        /\ Resolution(ResolveProjects(projectName, FALSE, "", "",
                                      includeUnmapped, nxAll, cfg),
                      nxAll.err, cfg,
                      ConsultsConfig(projectName, FALSE, "", "", includeUnmapped, nxAll))
        /\ flags' = [conflict |-> FALSE,
                     queries |-> NxQueries(projectName, FALSE, "", "")]

\* --all, or the affected projects between base and head
RunCandidateMode ==
    /\ mpc = "start"
    /\ \E allProjects \in BOOLEAN, base \in Revs, head \in Revs,
          includeUnmapped \in BOOLEAN, nxOut \in NxOutputs, cfg \in Configs :
        /\ Resolution(ResolveProjects(<<>>, allProjects, base, head,
                                      includeUnmapped, nxOut, cfg),
                      nxOut.err, cfg,
                      ConsultsConfig(<<>>, allProjects, base, head, includeUnmapped, nxOut))
        /\ flags' = [conflict |-> FALSE,
                     queries |-> NxQueries(<<>>, allProjects, base, head)]

\* Default concurrency, stats.initialize, context.WithTimeout
RunPrepare ==
    /\ mpc = "init"
    /\ \E maxConcurrent \in (-1)..MaxWorkers, numCPU \in 1..MaxWorkers :
          LET n == IF maxConcurrent <= 0 THEN numCPU ELSE maxConcurrent
          IN  /\ n * Len(projects) <= MaxLoad
              /\ workers' = n
    /\ stats' = initialize(Len(projects))
    /\ mpc' = "spawn"
    /\ UNCHANGED <<auxVars, sendLog, projects, resVars, lookups, notified, spawned, exitCode>>
    /\ UNCHANGED poolVars

\* ------------------------------------------- processProjectsOptimized
\* The spawn loop with an off-by-one bound.
SpawnOneMore(i) == i <= workers

\* for i := 0; i < workers; i++
SpawnMore(i) == i < workers

\* wg.Add(1); go optimizedWorker(...)
SpawnWorker ==
    /\ mpc = "spawn"
    /\ SpawnMore(spawned)
    /\ wg' = wg + 1
    /\ wpc' = [wpc EXCEPT ![spawned + 1] = "select"]
    /\ spawned' = spawned + 1
    /\ UNCHANGED <<auxVars, sendLog, mpc, projects, resVars, lookups, notified, workers, stats, exitCode, ctxDone, projectCh,
                   projectChClosed, resultCh, resultChClosed, wjob, werr, fpc,
                   fidx, cpc, cur, results, scanCalls, firedEarly, firedInFlight>>

\* go func() { wg.Wait(); close(resultCh) }()
StartCloser ==
    /\ mpc = "spawn"
    /\ ~SpawnMore(spawned)
    /\ cpc' = "wait"
    /\ mpc' = "feeder"
    /\ UNCHANGED <<auxVars, sendLog, projects, resVars, lookups, notified, workers, spawned, stats, exitCode, ctxDone, projectCh,
                   projectChClosed, resultCh, resultChClosed, wg, wpc, wjob, werr,
                   fpc, fidx, cur, results, scanCalls, firedEarly, firedInFlight>>

\* go func() { defer close(projectCh); for ... }()
StartFeeder ==
    /\ mpc = "feeder"
    /\ fpc' = "loop"
    /\ mpc' = "range"
    /\ UNCHANGED <<auxVars, sendLog, projects, resVars, lookups, notified, workers, spawned, stats, exitCode, ctxDone, projectCh,
                   projectChClosed, resultCh, resultChClosed, wg, wpc, wjob, werr,
                   fidx, cpc, cur, results, scanCalls, firedEarly, firedInFlight>>

\* The number of RunAnalysis calls that have returned.
ScansReturned ==
    Cardinality({w \in WorkerIds : wpc[w] = "send"}) + Len(resultCh)
    + (IF mpc = "record" THEN 1 ELSE 0) + Len(results)

\* The timer of context.WithTimeout fires.
Deadline ==
    /\ mpc \in {"spawn", "feeder", "range", "record"}
    /\ ~ctxDone
    /\ ctxDone' = TRUE
    /\ firedEarly' = (ScansReturned = 0)
    /\ firedInFlight' = (\E w \in WorkerIds : wpc[w] = "scan")
    /\ UNCHANGED <<auxVars, sendLog, mpc, projects, resVars, lookups, notified, workers, spawned, stats, exitCode, projectCh,
                   projectChClosed, resultCh, resultChClosed, wg, wpc, wjob, werr,
                   fpc, fidx, cpc, cur, results, scanCalls>>

\* ---- the feeder goroutine
\* A select with several ready cases takes any one of them: FeederSend and
\* FeederCancel (likewise WorkerReceive and WorkerCancel) can both be enabled.
\* case projectCh <- project
FeederSend ==
    /\ fpc = "loop"
    /\ fidx <= Len(projects)
    /\ Len(projectCh) < ChanCap(workers)
    /\ projectCh' = Append(projectCh, projects[fidx])
    /\ fidx' = fidx + 1
    /\ UNCHANGED <<auxVars, sendLog, mpc, projects, resVars, lookups, notified, workers, spawned, stats, exitCode, ctxDone,
                   projectChClosed, resultCh, resultChClosed, wg, wpc, wjob, werr,
                   fpc, cpc, cur, results, scanCalls, firedEarly, firedInFlight>>

\* case <-ctx.Done(): return, and the deferred close(projectCh)
FeederCancel ==
    /\ fpc = "loop"
    /\ fidx <= Len(projects)
    /\ ctxDone
    /\ projectChClosed' = TRUE
    /\ fpc' = "returned"
    /\ UNCHANGED <<auxVars, sendLog, mpc, projects, resVars, lookups, notified, workers, spawned, stats, exitCode, ctxDone,
                   projectCh, resultCh, resultChClosed, wg, wpc, wjob, werr,
                   fidx, cpc, cur, results, scanCalls, firedEarly, firedInFlight>>

\* The feeder without the deferred close(projectCh).
FeederFinishNoClose ==
    /\ fpc = "loop"
    /\ fidx > Len(projects)
    /\ fpc' = "returned"
    /\ UNCHANGED <<auxVars, sendLog, mpc, projects, resVars, lookups, notified, workers, spawned, stats, exitCode, ctxDone,
                   projectCh, projectChClosed, resultCh, resultChClosed, wg, wpc,
                   wjob, werr, fidx, cpc, cur, results, scanCalls, firedEarly,
                   firedInFlight>>

\* The range loop is over: the deferred close(projectCh)
FeederFinish ==
    /\ fpc = "loop"
    /\ fidx > Len(projects)
    /\ projectChClosed' = TRUE
    /\ fpc' = "returned"
    /\ UNCHANGED <<auxVars, sendLog, mpc, projects, resVars, lookups, notified, workers, spawned, stats, exitCode, ctxDone,
                   projectCh, resultCh, resultChClosed, wg, wpc, wjob, werr,
                   fidx, cpc, cur, results, scanCalls, firedEarly, firedInFlight>>

\* ---- optimizedWorker
\* return, and the deferred wg.Done()
WorkerReturn(w) ==
    /\ wpc' = [wpc EXCEPT ![w] = "returned"]
    /\ wg' = wg - 1
    /\ UNCHANGED <<auxVars, sendLog, mpc, projects, resVars, lookups, notified, workers, spawned, stats, exitCode, ctxDone,
                   projectCh, projectChClosed, resultCh, resultChClosed, wjob, werr,
                   fpc, fidx, cpc, cur, results, scanCalls, firedEarly, firedInFlight>>

\* case project, ok := <-projectCh with ok: the call of fossa.RunAnalysis starts
WorkerReceive(w) ==
    /\ wpc[w] = "select"
    /\ projectCh # <<>>
    /\ wjob' = [wjob EXCEPT ![w] = Head(projectCh)]
    /\ projectCh' = Tail(projectCh)
    /\ wpc' = [wpc EXCEPT ![w] = "scan"]
    /\ lookups' = TRUE
    /\ scanCalls' = [scanCalls EXCEPT ![Head(projectCh)] = @ + 1]
    /\ UNCHANGED <<auxVars, sendLog, mpc, projects, resVars, notified, workers, spawned, stats, exitCode, ctxDone,
                   projectChClosed, resultCh, resultChClosed, wg, werr, fpc, fidx,
                   cpc, cur, results, firedEarly, firedInFlight>>

\* case project, ok := <-projectCh with !ok
WorkerClosed(w) ==
    /\ wpc[w] = "select"
    /\ projectCh = <<>>
    /\ projectChClosed
    /\ WorkerReturn(w)

\* case <-ctx.Done()
WorkerCancel(w) ==
    /\ wpc[w] = "select"
    /\ ctxDone
    /\ WorkerReturn(w)

\* The outcomes of fossa.RunAnalysis: an error (TRUE) for a project that is
\* not mapped, an error or none for a mapped one (the fossa commands decide).
RunAnalysis(cfg, projectName) ==
    {o.err : o \in RunAnalysisSteps(cfg, projectName)}

\* A RunAnalysis call that the cancelled context kills: no result is sent.
WorkerScannedInterrupted(w) ==
    /\ wpc[w] = "scan"
    /\ IF ctxDone
       THEN WorkerReturn(w)
       ELSE /\ \E err \in RunAnalysis(config, wjob[w]) :
                    werr' = [werr EXCEPT ![w] = err]
            /\ wpc' = [wpc EXCEPT ![w] = "send"]
            /\ UNCHANGED <<auxVars, sendLog, mpc, projects, resVars, lookups, notified, workers, spawned, stats, exitCode, ctxDone,
                           projectCh, projectChClosed, resultCh, resultChClosed, wg,
                           wjob, fpc, fidx, cpc, cur, results, scanCalls, firedEarly,
                           firedInFlight>>

\* fossa.RunAnalysis(project) and getVulnerabilities return, RunAnalysis with
\* an error or without
WorkerScanned(w) ==
    /\ wpc[w] = "scan"
    /\ \E err \in RunAnalysis(config, wjob[w]) : werr' = [werr EXCEPT ![w] = err]
    /\ wpc' = [wpc EXCEPT ![w] = "send"]
    /\ UNCHANGED <<auxVars, sendLog, mpc, projects, resVars, lookups, notified, workers, spawned, stats, exitCode, ctxDone,
                   projectCh, projectChClosed, resultCh, resultChClosed, wg, wjob,
                   fpc, fidx, cpc, cur, results, scanCalls, firedEarly, firedInFlight>>

\* A send that gives up when the result channel is full.
WorkerSendNonBlocking(w) ==
    /\ wpc[w] = "send"
    /\ resultCh' = IF Len(resultCh) < ChanCap(workers)
                   THEN Append(resultCh, [project |-> wjob[w], err |-> werr[w]])
                   ELSE resultCh
    /\ sendLog' = Append(sendLog, [project |-> wjob[w], err |-> werr[w]])
    /\ wjob' = [wjob EXCEPT ![w] = NoName]
    /\ werr' = [werr EXCEPT ![w] = FALSE]
    /\ wpc' = [wpc EXCEPT ![w] = "select"]
    /\ UNCHANGED <<auxVars, mpc, projects, resVars, lookups, notified, workers, spawned, stats, exitCode, ctxDone,
                   projectCh, projectChClosed, resultChClosed, wg, fpc, fidx, cpc,
                   cur, results, scanCalls, firedEarly, firedInFlight>>

\* A worker that gives up after the first RunAnalysis error.
WorkerSendStopOnError(w) ==
    /\ wpc[w] = "send"
    /\ Len(resultCh) < ChanCap(workers)
    /\ resultCh' = Append(resultCh, [project |-> wjob[w], err |-> werr[w]])
    /\ sendLog' = Append(sendLog, [project |-> wjob[w], err |-> werr[w]])
    /\ wjob' = [wjob EXCEPT ![w] = NoName]
    /\ werr' = [werr EXCEPT ![w] = FALSE]
    /\ wpc' = [wpc EXCEPT ![w] = IF werr[w] THEN "returned" ELSE "select"]
    /\ wg' = IF werr[w] THEN wg - 1 ELSE wg
    /\ UNCHANGED <<auxVars, mpc, projects, resVars, lookups, notified, workers, spawned, stats,
                   exitCode, ctxDone, projectCh, projectChClosed, resultChClosed,
                   fpc, fidx, cpc, cur, results, scanCalls, firedEarly, firedInFlight>>

\* A worker that records its result in Stats itself.
WorkerSendRecording(w) ==
    /\ wpc[w] = "send"
    /\ Len(resultCh) < ChanCap(workers)
    /\ resultCh' = Append(resultCh, [project |-> wjob[w], err |-> werr[w]])
    /\ sendLog' = Append(sendLog, [project |-> wjob[w], err |-> werr[w]])
    /\ stats' = recordResult(stats, ~werr[w])
    /\ wjob' = [wjob EXCEPT ![w] = NoName]
    /\ werr' = [werr EXCEPT ![w] = FALSE]
    /\ wpc' = [wpc EXCEPT ![w] = "select"]
    /\ UNCHANGED <<auxVars, mpc, projects, resVars, lookups, notified, workers, spawned, exitCode, ctxDone,
                   projectCh, projectChClosed, resultChClosed, wg, fpc, fidx, cpc,
                   cur, results, scanCalls, firedEarly, firedInFlight>>

\* resultCh <- models.Result{...}
WorkerSend(w) ==
    /\ wpc[w] = "send"
    /\ Len(resultCh) < ChanCap(workers)
    /\ resultCh' = Append(resultCh, [project |-> wjob[w], err |-> werr[w]])
    /\ sendLog' = Append(sendLog, [project |-> wjob[w], err |-> werr[w]])
    /\ wjob' = [wjob EXCEPT ![w] = NoName]
    /\ werr' = [werr EXCEPT ![w] = FALSE]
    /\ wpc' = [wpc EXCEPT ![w] = "select"]
    /\ UNCHANGED <<auxVars, mpc, projects, resVars, lookups, notified, workers, spawned, stats, exitCode, ctxDone,
                   projectCh, projectChClosed, resultChClosed, wg, fpc, fidx, cpc,
                   cur, results, scanCalls, firedEarly, firedInFlight>>

Worker(w) ==
    \/ WorkerReceive(w)
    \/ WorkerClosed(w)
    \/ WorkerCancel(w)
    \/ WorkerScanned(w)
    \/ WorkerSend(w)

\* ---- the goroutine that closes resultCh
\* A closer that does not wait for the workers.
CloserCloseNoWait ==
    /\ cpc = "wait"
    /\ resultChClosed' = TRUE
    /\ cpc' = "returned"
    /\ UNCHANGED <<auxVars, sendLog, mpc, projects, resVars, lookups, notified, workers, spawned, stats, exitCode, ctxDone,
                   projectCh, projectChClosed, resultCh, wg, wpc, wjob, werr, fpc,
                   fidx, cur, results, scanCalls, firedEarly, firedInFlight>>

\* wg.Wait() returns; close(resultCh)
CloserClose ==
    /\ cpc = "wait"
    /\ wg = 0
    /\ resultChClosed' = TRUE
    /\ cpc' = "returned"
    /\ UNCHANGED <<auxVars, sendLog, mpc, projects, resVars, lookups, notified, workers, spawned, stats, exitCode, ctxDone,
                   projectCh, projectChClosed, resultCh, wg, wpc, wjob, werr, fpc,
                   fidx, cur, results, scanCalls, firedEarly, firedInFlight>>

\* ---- the collector: for result := range resultCh
CollectorReceive ==
    /\ mpc = "range"
    /\ resultCh # <<>>
    /\ cur' = Head(resultCh)
    /\ resultCh' = Tail(resultCh)
    /\ mpc' = "record"
    /\ UNCHANGED <<auxVars, sendLog, projects, resVars, lookups, notified, workers, spawned, stats, exitCode, ctxDone, projectCh,
                   projectChClosed, resultChClosed, wg, wpc, wjob, werr, fpc, fidx,
                   cpc, results, scanCalls, firedEarly, firedInFlight>>

\* A collector that puts the newest result first.
CollectorRecordNewestFirst ==
    /\ mpc = "record"
    /\ stats' = recordResult(stats, ~cur.err)
    /\ results' = <<cur>> \o results
    /\ cur' = NoResult
    /\ mpc' = "range"
    /\ UNCHANGED <<auxVars, sendLog, projects, resVars, lookups, notified, workers, spawned, exitCode, ctxDone, projectCh,
                   projectChClosed, resultCh, resultChClosed, wg, wpc, wjob, werr,
                   fpc, fidx, cpc, scanCalls, firedEarly, firedInFlight>>

\* stats.recordResult(success, ...); results = append(results, result)
CollectorRecord ==
    /\ mpc = "record"
    /\ stats' = recordResult(stats, ~cur.err)
    /\ results' = Append(results, cur)
    /\ cur' = NoResult
    /\ mpc' = "range"
    /\ UNCHANGED <<auxVars, sendLog, projects, resVars, lookups, notified, workers, spawned, exitCode, ctxDone, projectCh,
                   projectChClosed, resultCh, resultChClosed, wg, wpc, wjob, werr,
                   fpc, fidx, cpc, scanCalls, firedEarly, firedInFlight>>

\* A collector that leaves as soon as no result is waiting.
RangeOverOnEmpty == resultCh = <<>>

\* A collector that also leaves when the context is cancelled.
RangeOverOrCancelled == (resultCh = <<>> /\ resultChClosed) \/ ctxDone

\* The range loop ends: the channel is closed and drained.
RangeOver == resultCh = <<>> /\ resultChClosed

\* return results
CollectorReturn ==
    /\ mpc = "range"
    /\ RangeOver
    /\ mpc' = "print"
    /\ UNCHANGED <<auxVars, sendLog, projects, resVars, lookups, notified, workers, spawned, stats, exitCode, ctxDone, projectCh,
                   projectChClosed, resultCh, resultChClosed, wg, wpc, wjob, werr,
                   fpc, fidx, cpc, cur, results, scanCalls, firedEarly, firedInFlight>>

\* ---- Run, after the pool
\* An exit status that counts the projects without a result as failures.
ExitStatusCountsSkipped(s) ==
    IF s.failed > 0 \/ s.successful < s.totalProjects THEN 1 ELSE 0

\* if stats.failed > 0 { os.Exit(1) }
\* An exit status that ignores the failed counter.
ExitStatusIgnoresFailed(s) == 0

ExitStatus(s) == IF s.failed > 0 THEN 1 ELSE 0

\* One notifier call and whether it returned an error
Call(name, failed) == [call |-> name, err |-> failed]

\* Notifications that stop at the first notifier that fails.
NotifyStopOnError(emailEnabled, githubEnabled, emailErr, issuesErr, statusErr) ==
    IF emailEnabled /\ emailErr THEN <<Call("SendHTMLReport", TRUE)>>
    ELSE (IF emailEnabled THEN <<Call("SendHTMLReport", FALSE)>> ELSE <<>>)
         \o (IF ~githubEnabled THEN <<>>
             ELSE IF issuesErr THEN <<Call("CreateIssues", TRUE)>>
             ELSE <<Call("CreateIssues", FALSE), Call("CreateCommitStatus", statusErr)>>)

\* The notifier calls of one run, in order: the email report if email is
\* enabled; with GitHub enabled CreateIssues and then CreateCommitStatus.
\* An error is logged and nothing else.
Notify(emailEnabled, githubEnabled, emailErr, issuesErr, statusErr) ==
    (IF emailEnabled THEN <<Call("SendHTMLReport", emailErr)>> ELSE <<>>)
    \o (IF githubEnabled
        THEN <<Call("CreateIssues", issuesErr), Call("CreateCommitStatus", statusErr)>>
        ELSE <<>>)

\* stats.print(), the notifications, the exit status
RunFinish ==
    /\ mpc = "print"
    /\ \E emailEnabled \in BOOLEAN, githubEnabled \in BOOLEAN, emailErr \in BOOLEAN,
          issuesErr \in BOOLEAN, statusErr \in BOOLEAN :
        notified' = [email |-> emailEnabled, github |-> githubEnabled,
                     calls |-> Notify(emailEnabled, githubEnabled,
                                      emailErr, issuesErr, statusErr)]
    /\ exitCode' = ExitStatus(stats)
    /\ mpc' = "exited"
    /\ UNCHANGED <<auxVars, sendLog, projects, resVars, lookups, workers, spawned, stats>>
    /\ UNCHANGED poolVars

Next ==
    \/ RunFlagConflict
    \/ RunProjectMode
    \/ RunCandidateMode
    \/ RunPrepare
    \/ SpawnWorker
    \/ StartCloser
    \/ StartFeeder
    \/ Deadline
    \/ FeederSend
    \/ FeederCancel
    \/ FeederFinish
    \/ \E w \in WorkerIds : Worker(w)
    \/ CloserClose
    \/ CollectorReceive
    \/ CollectorRecord
    \/ CollectorReturn
    \/ RunFinish

Spec == Init /\ [][Next]_vars

\* ---------------------------------------------------------- fairness
\* The Go scheduler runs every runnable goroutine; a RunAnalysis call is
\* assumed to return.  Nothing forces the deadline to fire.
RunStep ==
    \/ RunFlagConflict
    \/ RunProjectMode
    \/ RunCandidateMode
    \/ RunPrepare
    \/ SpawnWorker
    \/ StartCloser
    \/ StartFeeder
    \/ CollectorReceive
    \/ CollectorRecord
    \/ CollectorReturn
    \/ RunFinish

Feeder == FeederSend \/ FeederCancel \/ FeederFinish

Fairness ==
    /\ WF_vars(RunStep)
    /\ WF_vars(Feeder)
    /\ \A w \in WorkerIds : WF_vars(Worker(w))
    /\ WF_vars(CloserClose)

LiveSpec == Init /\ [][Next]_vars /\ Fairness

\* ------------------------------------- Stats under concurrent callers
\* Each caller runs Stats.recordResult once, one atomic operation per step.

\* A goroutine calls recordResult(success, duration, vulnCount): the
\* arguments. The callers are interchangeable and numbered in the order of
\* their calls.
RecordCall(c) ==
    /\ rec[c].pc = "idle"
    /\ ref.inits = 0
    /\ \A b \in Callers : b < c => rec[b].pc # "idle"
    /\ ~report.printed
    /\ \E success \in BOOLEAN, duration \in Durations, vulnCount \in 0..MaxVulns :
        /\ rec' = [rec EXCEPT ![c] = [pc |-> "count", success |-> success,
                                      duration |-> duration,
                                      vulnCount |-> vulnCount, old |-> 0]]
        /\ ref' = [recordResultAlone(ref, success, duration, vulnCount) EXCEPT
                        !.least = IF @ = -1 \/ duration < @ THEN duration ELSE @,
                        !.most = IF duration > @ THEN duration ELSE @]
    /\ UNCHANGED <<runVars, changeVars, libVars, st, report>>

\* atomic.AddInt32(&s.successful, 1) or atomic.AddInt32(&s.failed, 1)
AddCount(c) ==
    /\ rec[c].pc = "count"
    /\ st' = recordResult(st, rec[c].success)
    /\ rec' = [rec EXCEPT ![c].pc = IF rec[c].vulnCount > 0 THEN "vuln" ELSE "total",
                          ![c].success = FALSE]
    /\ UNCHANGED <<runVars, changeVars, libVars, ref, report>>

\* atomic.AddInt32(&s.vulnerabilities, int32(vulnCount))
AddVulnerabilities(c) ==
    /\ rec[c].pc = "vuln"
    /\ st' = [st EXCEPT !.vulnerabilities = @ + rec[c].vulnCount]
    /\ rec' = [rec EXCEPT ![c].pc = "total", ![c].vulnCount = 0]
    /\ UNCHANGED <<runVars, changeVars, libVars, ref, report>>

\* atomic.AddInt64(&s.totalDuration, durationNanos)
AddTotalDuration(c) ==
    /\ rec[c].pc = "total"
    /\ st' = [st EXCEPT !.totalDuration = @ + rec[c].duration]
    /\ rec' = [rec EXCEPT ![c].pc = "load"]
    /\ UNCHANGED <<runVars, changeVars, libVars, ref, report>>

\* old := atomic.LoadInt64(&s.maxDuration); if durationNanos <= old { break }
LoadMax(c) ==
    /\ rec[c].pc = "load"
    /\ rec' = [rec EXCEPT ![c].old = IF rec[c].duration <= st.maxDuration
                                     THEN 0 ELSE st.maxDuration,
                          ![c].pc = IF rec[c].duration <= st.maxDuration
                                    THEN "min" ELSE "cas"]
    /\ UNCHANGED <<runVars, changeVars, libVars, st, ref, report>>

\* A store of the new maximum that does not compare with the value loaded.
StoreMax(c) ==
    /\ rec[c].pc = "cas"
    /\ st' = [st EXCEPT !.maxDuration = rec[c].duration]
    /\ rec' = [rec EXCEPT ![c].pc = "min", ![c].old = 0]
    /\ UNCHANGED <<runVars, changeVars, libVars, ref, report>>

\* if atomic.CompareAndSwapInt64(&s.maxDuration, old, durationNanos) { break }
CompareAndSwapMax(c) ==
    /\ rec[c].pc = "cas"
    /\ IF st.maxDuration = rec[c].old
       THEN /\ st' = [st EXCEPT !.maxDuration = rec[c].duration]
            /\ rec' = [rec EXCEPT ![c].pc = "min", ![c].old = 0]
       ELSE /\ st' = st
            /\ rec' = [rec EXCEPT ![c].pc = "load", ![c].old = 0]
    /\ UNCHANGED <<runVars, changeVars, libVars, ref, report>>

\* A minimum that takes the duration of the latest call.
UpdateMinLastWins(c) ==
    /\ rec[c].pc = "min"
    /\ st' = [st EXCEPT !.minDuration = rec[c].duration]
    /\ rec' = [rec EXCEPT ![c] = [Idle EXCEPT !.pc = "done"]]
    /\ UNCHANGED <<runVars, changeVars, libVars, ref, report>>

\* s.mutex.Lock(); if durationNanos < s.minDuration { ... }; s.mutex.Unlock()
UpdateMin(c) ==
    /\ rec[c].pc = "min"
    /\ st' = [st EXCEPT !.minDuration = IF rec[c].duration < @
                                        THEN rec[c].duration ELSE @]
    /\ rec' = [rec EXCEPT ![c] = [Idle EXCEPT !.pc = "done"]]
    /\ UNCHANGED <<runVars, changeVars, libVars, ref, report>>

\* No recordResult call is in progress.
Quiescent == \A c \in Callers : rec[c].pc \in {"idle", "done"}

\* The calls that have returned
Returned == {c \in Callers : rec[c].pc = "done"}

\* stats.print(), after the calls have returned
StatsPrint ==
    /\ Quiescent
    /\ ~report.printed
    /\ report' = print(st)
    /\ UNCHANGED <<runVars, changeVars, libVars, st, rec, ref>>

\* stats.initialize(total) called again, on the struct the calls have used
\* and print has reported; the struct is then left as it is.
StatsInitialize ==
    /\ Quiescent
    /\ report.printed
    /\ ref.inits = 0
    /\ \E total \in {0, MaxCallers} :
        /\ st' = initializeStats(st, total)
        /\ ref' = [initializeStats(ref, total) EXCEPT
                        !.least = -1, !.most = -1, !.inits = 1]
    /\ rec' = [c \in Callers |-> Idle]
    /\ UNCHANGED <<runVars, changeVars, libVars, report>>

StatsNext ==
    \/ \E c \in Callers : RecordCall(c)
    \/ \E c \in Callers : AddCount(c)
    \/ \E c \in Callers : AddVulnerabilities(c)
    \/ \E c \in Callers : AddTotalDuration(c)
    \/ \E c \in Callers : LoadMax(c)
    \/ \E c \in Callers : CompareAndSwapMax(c)
    \/ \E c \in Callers : UpdateMin(c)
    \/ StatsPrint

StatsSpec == Init /\ [][StatsNext]_vars

\* The same, with a second initialize at the end
InitializeSpec == Init /\ [][StatsNext \/ StatsInitialize]_vars

\* --------------------------------------------------- change detection
\* One call of nx.ShouldSkipProject in the process, the external commands
\* answering as they answer at that moment.
CallShouldSkipProject ==
    /\ caches.calls < MaxCalls
    /\ \E projectName \in {AllNames[1], AllNames[2]}, base \in Revs, head \in Revs,
          forceAll \in BOOLEAN :
       \* the commands answer only to a call that comes to run them
       \E diffOut \in (IF forceAll \/ (base = "" /\ head = "")
                       THEN {[err |-> TRUE, files |-> <<>>]} ELSE DiffNow(caches)),
          graphOut \in (IF forceAll \/ (base = "" /\ head = "")
                        THEN {CHOOSE g \in GraphOutputs : g.tempErr}
                        ELSE GraphNow(caches)) :
        \* the call, and what it gets from GetChangedProjectsUsingGraph
        \* when it comes to call it (each evaluated once)
        \E r \in {ShouldSkipProject(caches, projectName, base, head, forceAll,
                                    diffOut, graphOut)},
           g \in {GetChangedProjectsUsingGraph(caches, base, head, diffOut, graphOut)} :
        LET computes == ~forceAll /\ ~(base = "" /\ head = "") /\ ~g.err
            \* what git diff answers for the pair of this call: the answer
            \* it gives now, the answer it gave to the same pair before, or
            \* any answer
            answers == IF ~computes \/ ~caches.changedFilesOnce THEN {diffOut}
                       ELSE IF <<base, head>> = caches.pair /\ ~caches.diffFailed
                            THEN {[err |-> FALSE, files |-> caches.changedFilesCache]}
                            ELSE TruthNow(caches)
        IN  \E truth \in answers :
            LET files == SlashPaths(truth.files)
            IN  /\ caches' = [r.c EXCEPT !.calls = @ + 1]
                /\ last' = [n |-> 1, projectName |-> projectName, base |-> base,
                            head |-> head, forceAll |-> forceAll, skip |-> r.skip,
                            touched |-> (r.c # caches),
                            ok |-> (computes /\ ~truth.err),
                            changed |->
                                /\ computes /\ ~truth.err
                                /\ \E i \in 1..Len(files), node \in g.c.projectGraphCache :
                                    /\ node.name = projectName
                                    /\ InProject(files[i],
                                                 ReplaceAll(node.root, "\\", "/"))]
                /\ ret' = NoReturn
    /\ UNCHANGED <<runVars, statsVars, libVars>>

\* One call of nx.GetChangedFiles(base, head)
CallGetChangedFiles ==
    /\ caches.calls < MaxCalls
    /\ \E base \in Revs, head \in Revs, truth \in TruthNow(caches) :
        \E r \in {GetChangedFiles(caches, base, head, truth)} :
            /\ caches' = [r.c EXCEPT !.calls = @ + 1]
            /\ ret' = [NoReturn EXCEPT !.n = 1, !.fn = "GetChangedFiles",
                                       !.base = base, !.head = head,
                                       !.files = r.files, !.err = r.err,
                                       !.asked = Len(r.c.queries) - Len(caches.queries),
                                       !.truth = truth]
    /\ last' = NoCall
    /\ UNCHANGED <<runVars, statsVars, libVars>>

\* One call of nx.GetProjectGraph()
CallGetProjectGraph ==
    /\ caches.calls < MaxCalls
    /\ \E graphOut \in GraphNow(caches) :
        \E r \in {GetProjectGraph(caches, graphOut)} :
            /\ caches' = [r.c EXCEPT !.calls = @ + 1]
            /\ ret' = [NoReturn EXCEPT !.n = 1, !.fn = "GetProjectGraph",
                                       !.graph = r.graph, !.err = r.err,
                                       !.asked = Len(r.c.queries) - Len(caches.queries),
                                       !.query = IF caches.projectGraphOnce THEN @
                                                 ELSE [ran |-> TRUE,
                                                       tempErr |-> graphOut.tempErr,
                                                       primaryErr |-> graphOut.primaryErr,
                                                       fallbackErr |-> graphOut.fallbackErr,
                                                       parseErr |-> graphOut.parseErr]]
    /\ last' = NoCall
    /\ UNCHANGED <<runVars, statsVars, libVars>>

\* One call of nx.GetChangedProjectsUsingGraph(base, head); files and graph
\* are the changed files and the nodes the call worked on.
CallGetChangedProjectsUsingGraph ==
    /\ caches.calls < MaxCalls
    /\ \E base \in Revs, head \in Revs, diffOut \in DiffNow(caches),
          graphOut \in GraphNow(caches) :
        \E r \in {GetChangedProjectsUsingGraph(caches, base, head, diffOut, graphOut)} :
            /\ caches' = [r.c EXCEPT !.calls = @ + 1]
            /\ ret' = [NoReturn EXCEPT !.n = 1,
                                       !.fn = "GetChangedProjectsUsingGraph",
                                       !.base = base, !.head = head,
                                       !.files = r.c.changedFilesCache,
                                       !.graph = r.c.projectGraphCache,
                                       !.projects = r.projects, !.err = r.err,
                                       !.asked = Len(r.c.queries) - Len(caches.queries)]
    /\ last' = NoCall
    /\ UNCHANGED <<runVars, statsVars, libVars>>

ChangeNext ==
    \/ CallShouldSkipProject
    \/ CallGetChangedFiles
    \/ CallGetProjectGraph
    \/ CallGetChangedProjectsUsingGraph

ChangeSpec == Init /\ [][ChangeNext]_vars

\* ------------------------------ the project inventory, concurrent callers
\* allProjectsMutex.RLock(): no writer holds the mutex.
CallGetProjects(c) ==
    /\ gp[c].pc = "idle"
    /\ inv.calls < MaxCalls
    /\ inv.writer = 0
    /\ inv' = [inv EXCEPT !.readers = @ \cup {c}, !.calls = @ + 1]
    /\ gp' = [gp EXCEPT ![c] = [NotCalled EXCEPT
                                    !.pc = "rlocked",
                                    !.loadedBefore = inv.allProjectsLoaded]]
    /\ UNCHANGED <<runVars, statsVars, changeVars, pl, job, aff, early, disk>>

\* The first test of allProjectsLoaded and RUnlock: return the cache, or go
\* on to take the write lock.
ReadCache(c) ==
    /\ gp[c].pc = "rlocked"
    /\ inv' = [inv EXCEPT !.readers = @ \ {c}]
    /\ gp' = IF inv.allProjectsLoaded
             THEN [gp EXCEPT ![c].pc = "idle", ![c].n = 1,
                             ![c].out = NxOk(inv.allProjectsCache)]
             ELSE [gp EXCEPT ![c].pc = "unlocked"]
    /\ UNCHANGED <<runVars, statsVars, changeVars, pl, job, aff, early, disk>>

\* allProjectsMutex.Lock(): no reader and no writer holds the mutex.
LockCache(c) ==
    /\ gp[c].pc = "unlocked"
    /\ inv.writer = 0
    /\ inv.readers = {}
    /\ inv' = [inv EXCEPT !.writer = c]
    /\ gp' = [gp EXCEPT ![c].pc = "locked"]
    /\ UNCHANGED <<runVars, statsVars, changeVars, pl, job, aff, early, disk>>

\* The second test of allProjectsLoaded: return the cache (the deferred
\* Unlock runs), or go on to the command.
CheckAgain(c) ==
    /\ gp[c].pc = "locked"
    /\ IF DoubleCheck(inv)
       THEN /\ inv' = [inv EXCEPT !.writer = 0]
            /\ gp' = [gp EXCEPT ![c].pc = "idle", ![c].n = 1,
                                ![c].out = NxOk(inv.allProjectsCache)]
       ELSE /\ gp' = [gp EXCEPT ![c].pc = "command"]
            /\ inv' = inv
    /\ UNCHANGED <<runVars, statsVars, changeVars, pl, job, aff, early, disk>>

\* `yarn nx show projects`: on an error the call returns it and stores
\* nothing (the deferred Unlock runs); else it holds the non-empty lines.
ShowProjects(c) ==
    /\ gp[c].pc = "command"
    /\ \E out \in NxOutputs :
        LET r == GetProjects(out)
        IN  IF r.err
            THEN /\ inv' = [inv EXCEPT !.invoked = @ + 1, !.writer = 0]
                 /\ gp' = [gp EXCEPT ![c].pc = "idle", ![c].n = 1,
                                     ![c].asked = TRUE, ![c].out = NxError]
            ELSE /\ inv' = [inv EXCEPT !.invoked = @ + 1, !.succeeded = @ + 1]
                 /\ gp' = [gp EXCEPT ![c].pc = "store", ![c].asked = TRUE,
                                     ![c].out = r]
    /\ UNCHANGED <<runVars, statsVars, changeVars, pl, job, aff, early, disk>>

\* allProjectsCache = projects; allProjectsLoaded = true; return (the
\* deferred Unlock runs).
StoreCache(c) ==
    /\ gp[c].pc = "store"
    /\ inv' = [inv EXCEPT !.allProjectsCache = gp[c].out.projects,
                          !.allProjectsLoaded = TRUE, !.writer = 0]
    /\ gp' = [gp EXCEPT ![c].pc = "idle", ![c].n = 1]
    /\ UNCHANGED <<runVars, statsVars, changeVars, pl, job, aff, early, disk>>

InventoryNext ==
    \E c \in Callers :
        \/ CallGetProjects(c)
        \/ ReadCache(c)
        \/ LockCache(c)
        \/ CheckAgain(c)
        \/ ShowProjects(c)
        \/ StoreCache(c)

InventorySpec == Init /\ [][InventoryNext]_vars

\* ------------------------------------------------- GetProjectsFromList
\* The first call of nx.GetProjectsFromList(projectsList) in the process,
\* with what the inventory answers to it.
CallGetProjectsFromList ==
    /\ pl.n = 0
    /\ \E projectsList \in Strings(MaxListLen), nxAll \in NxOutputs :
        LET r == GetProjectsFromList(projectsList, nxAll)
        IN  pl' = [n |-> 1, projectsList |-> projectsList,
                   universe |-> Range(nxAll.projects), err |-> r.err,
                   valid |-> r.valid, invalid |-> r.invalid]
    /\ UNCHANGED <<runVars, statsVars, changeVars, inv, gp, job, aff, early, disk>>

ListSpec == Init /\ [][CallGetProjectsFromList]_vars

\* --------------------------------------------------- a job, end to end
\* Run from the flags to the list handed to processProjectsOptimized.
JobResolve ==
    /\ job.pc = "start"
    /\ \E projectName \in Strings(MaxListLen), allProjects \in BOOLEAN,
          base \in Revs, head \in Revs, includeUnmapped \in BOOLEAN,
          nxOut \in NxOutputs, cfg \in Configs :
        LET r == ResolveProjects(projectName, allProjects, base, head,
                                 includeUnmapped, nxOut, cfg)
        IN  job' = [job EXCEPT
                        !.pc = IF r.kind = "ok" THEN "pool" ELSE "exited",
                        !.mode = Mode(projectName, allProjects),
                        !.includeUnmapped = includeUnmapped,
                        !.revs = (base # "" /\ head # ""),
                        !.config = cfg,
                        !.projects = r.projects]
    /\ UNCHANGED <<runVars, statsVars, changeVars, inv, gp, pl, aff, early, disk>>

\* optimizedWorker on one of the dispatched projects: fossa.RunAnalysis and
\* nothing before it. Whether the project has a changed file between base
\* and head is a fact of the repository.
JobAnalyze ==
    /\ job.pc = "pool"
    /\ \E project \in Range(job.projects),
          changed \in (IF job.revs THEN BOOLEAN ELSE {TRUE}) :
        \E o \in RunAnalysisSteps(job.config, project) :
            job' = [job EXCEPT !.pc = "done", !.n = 1, !.project = project,
                               !.changed = changed, !.stage = o.stage,
                               !.err = o.err]
    /\ UNCHANGED <<runVars, statsVars, changeVars, inv, gp, pl, aff, early, disk>>

JobNext == JobResolve \/ JobAnalyze

JobSpec == Init /\ [][JobNext]_vars

\* ---------------------------------------------- GetProjects, affected
\* A call of nx.GetProjects(base, head, false): nothing is cached, every
\* call runs the command.
CallGetProjectsAffected ==
    /\ \E base \in Revs, head \in Revs, out \in AffectedOutputs :
        \E r \in {GetProjectsAffected(base, head, out)} :
            aff' = [n |-> 1, base |-> base, head |-> head, lines |-> out.lines,
                    args |-> r.args, err |-> r.err, projects |-> r.projects]
    /\ UNCHANGED <<runVars, statsVars, changeVars, inv, gp, pl, job, early, disk>>

AffectedSpec == Init /\ [][CallGetProjectsAffected]_vars

\* ------------------------------- the earlier processProjectsOptimized
\* The call: the channels are made, the workers spawned, the feeder started.
EarlyEnter ==
    /\ early.pc = "start"
    /\ \E k \in 1..MaxProjects, n \in 1..MaxWorkers :
        early' = [early EXCEPT !.pc = "pool", !.projects = Prefix(k),
                               !.workers = n, !.alive = n, !.fpc = "loop"]
    /\ UNCHANGED <<runVars, statsVars, changeVars, inv, gp, pl, job, aff, disk>>

\* The timeout of ctx expires.
EarlyDeadline ==
    /\ early.pc = "pool"
    /\ ~early.ctxDone
    /\ early' = [early EXCEPT !.ctxDone = TRUE]
    /\ UNCHANGED <<runVars, statsVars, changeVars, inv, gp, pl, job, aff, disk>>

\* The feeder's select, case projectCh <- project
EarlyFeederSend ==
    /\ early.fpc = "loop"
    /\ early.idx <= Len(early.projects)
    /\ Len(early.projectCh) < ChanCap(early.workers)
    /\ early' = [early EXCEPT
                    !.projectCh = Append(@, early.projects[early.idx]),
                    !.idx = @ + 1,
                    !.sentAfter = @ \/ early.observed]
    /\ UNCHANGED <<runVars, statsVars, changeVars, inv, gp, pl, job, aff, disk>>

\* The feeder's select, case <-ctx.Done(): the break leaves the select, and
\* the range loop goes on to the next project.
EarlyFeederBreak ==
    /\ early.fpc = "loop"
    /\ early.idx <= Len(early.projects)
    /\ early.ctxDone
    /\ early' = [early EXCEPT !.idx = @ + 1, !.observed = TRUE]
    /\ UNCHANGED <<runVars, statsVars, changeVars, inv, gp, pl, job, aff, disk>>

\* The range loop is over: close(projectCh).
EarlyFeederClose ==
    /\ early.fpc = "loop"
    /\ early.idx > Len(early.projects)
    /\ early' = [early EXCEPT !.closed = TRUE, !.fpc = "done"]
    /\ UNCHANGED <<runVars, statsVars, changeVars, inv, gp, pl, job, aff, disk>>

\* A worker's select, case project, ok := <-projectCh with ok: it analyzes
\* the project, sends the result and is back at its select.
EarlyWorkerReceive ==
    /\ early.alive > 0
    /\ early.projectCh # <<>>
    /\ early' = [early EXCEPT !.projectCh = Tail(@)]
    /\ UNCHANGED <<runVars, statsVars, changeVars, inv, gp, pl, job, aff, disk>>

\* A worker returns: projectCh is closed and drained, or case <-ctx.Done().
EarlyWorkerReturn ==
    /\ early.alive > 0
    /\ early.ctxDone \/ (early.closed /\ early.projectCh = <<>>)
    /\ early' = [early EXCEPT !.alive = @ - 1]
    /\ UNCHANGED <<runVars, statsVars, changeVars, inv, gp, pl, job, aff, disk>>

EarlySpec ==
    Init /\ [][EarlyEnter \/ EarlyDeadline \/ EarlyFeederSend \/ EarlyFeederBreak
               \/ EarlyFeederClose \/ EarlyWorkerReceive \/ EarlyWorkerReturn]_vars

\* ------------------------------------ RunAnalysis and the project directory
\* Each call analyzes a project of its own, in a directory of its own; every
\* step that touches the disk holds fsLock from its first access to its last.
\* The call begins: what is in the directory, and the returns before the
\* disk is touched (project not mapped, no project root, no monorepo root).
RunAnalysisBegin(c) ==
    /\ disk[c].pc = "idle"
    /\ \E pkg \in {"absent", "original"}, nm \in {"absent", "directory"},
          failed \in BOOLEAN :
        disk' = [disk EXCEPT ![c] = [NoDisk EXCEPT
                    !.packageJson = pkg, !.nodeModules = nm,
                    !.pkgBefore = pkg, !.nmBefore = nm,
                    !.pc = IF failed THEN "returned" ELSE "backup",
                    !.exit = IF failed THEN "lookup" ELSE "",
                    !.err = failed]]
    /\ UNCHANGED <<runVars, statsVars, changeVars, inv, gp, pl, job, aff, early>>

\* os.Stat and os.ReadFile of package.json
RunAnalysisBackup(c) ==
    /\ disk[c].pc = "backup"
    /\ IF disk[c].packageJson = "absent"
       THEN disk' = [disk EXCEPT ![c].pc = "stage"]
       ELSE \E failed \in BOOLEAN :
            disk' = IF failed
                    THEN [disk EXCEPT ![c].pc = "returned", ![c].exit = "read",
                                      ![c].err = TRUE,
                                      ![c].packageJsonExists = TRUE]
                    ELSE [disk EXCEPT ![c].pc = "stage",
                                      ![c].packageJsonExists = TRUE,
                                      ![c].originalPackageJson = disk[c].packageJson]
    /\ UNCHANGED <<runVars, statsVars, changeVars, inv, gp, pl, job, aff, early>>

\* nx.CreateTemporaryPackageJson: a minimal package.json when the
\* dependencies cannot be queried, else one merged with the existing file;
\* a failed os.WriteFile leaves the file as it was or cut short.
RunAnalysisStage(c) ==
    /\ disk[c].pc = "stage"
    /\ \E depsFailed \in BOOLEAN, writeFailed \in BOOLEAN :
        IF writeFailed
        THEN \E left \in {disk[c].packageJson, "partial"} :
             disk' = [disk EXCEPT ![c].pc = "returned", ![c].exit = "stage",
                                  ![c].err = TRUE, ![c].packageJson = left]
        ELSE disk' = [disk EXCEPT
                        ![c].pc = "symlink",
                        ![c].packageJson =
                            IF depsFailed THEN "minimal" ELSE "merged"]
    /\ UNCHANGED <<runVars, statsVars, changeVars, inv, gp, pl, job, aff, early>>

\* os.Stat of node_modules and, when nothing is there, os.Symlink
RunAnalysisSymlink(c) ==
    /\ disk[c].pc = "symlink"
    /\ IF disk[c].nodeModules # "absent"
       THEN disk' = [disk EXCEPT ![c].pc = "fossa"]
       ELSE \E failed \in BOOLEAN :
            disk' = IF failed
                    THEN [disk EXCEPT ![c].pc = "returned",
                                      ![c].exit = "symlink", ![c].err = TRUE]
                    ELSE [disk EXCEPT ![c].pc = "fossa",
                                      ![c].nodeModules = "symlink",
                                      ![c].nodeModulesCreated = TRUE]
    /\ UNCHANGED <<runVars, statsVars, changeVars, inv, gp, pl, job, aff, early>>

\* The cleanup is deferred; fossa analyze, and fossa test when it passed.
RunAnalysisFossa(c) ==
    /\ disk[c].pc = "fossa"
    /\ \E exit \in {"analyze", "test", "ok"} :
        disk' = [disk EXCEPT ![c].pc = "cleanup", ![c].exit = exit,
                             ![c].err = (exit # "ok")]
    /\ UNCHANGED <<runVars, statsVars, changeVars, inv, gp, pl, job, aff, early>>

\* The deferred function, then the return
RunAnalysisCleanup(c) ==
    /\ disk[c].pc = "cleanup"
    /\ disk' = [disk EXCEPT
                    ![c].pc = "returned",
                    ![c].packageJson =
                        IF disk[c].packageJsonExists
                        THEN disk[c].originalPackageJson ELSE "absent",
                    ![c].nodeModules =
                        IF disk[c].nodeModulesCreated THEN "absent" ELSE @]
    /\ UNCHANGED <<runVars, statsVars, changeVars, inv, gp, pl, job, aff, early>>

DiskNext ==
    \E c \in Callers :
        \/ RunAnalysisBegin(c)
        \/ RunAnalysisBackup(c)
        \/ RunAnalysisStage(c)
        \/ RunAnalysisSymlink(c)
        \/ RunAnalysisFossa(c)
        \/ RunAnalysisCleanup(c)

DiskSpec == Init /\ [][DiskNext]_vars

\* ------------------------------------------------------------ helpers
IsDistinct(s) == \A i, j \in 1..Len(s) : i # j => s[i] # s[j]

Count(s, n) == Cardinality({i \in 1..Len(s) : s[i].project = n})

Failures(s) == Cardinality({i \in 1..Len(s) : s[i].err})

\* processProjectsOptimized has been entered / has returned
PoolEntered == workers > 0

PoolReturned == PoolEntered /\ mpc \in {"print", "exited"}

Started == {w \in WorkerIds : wpc[w] # "unstarted"}

Scanning == {w \in WorkerIds : wpc[w] = "scan"}

\* Where the result of a RunAnalysis call for project n is, from the call
\* to the result slice.
InPipeline(n) ==
    Cardinality({w \in WorkerIds : wpc[w] \in {"scan", "send"} /\ wjob[w] = n})
    + Count(resultCh, n)
    + (IF cur.project = n THEN 1 ELSE 0)
    + Count(results, n)

\* ------------------------------------------------------------- claims
\* C1: with M distinct projects, 1 <= N <= M workers and a deadline that
\* never fires, the pool returns exactly M results, no project twice, and
\* successful + failed = M.
C1_AllCollected ==
    (PoolReturned /\ ~ctxDone /\ IsDistinct(projects) /\ workers <= Len(projects))
        => /\ Len(results) = Len(projects)
           /\ \A i, j \in 1..Len(results) :
                 i # j => results[i].project # results[j].project
           /\ stats.successful + stats.failed = Len(projects)

C1_Witness ==
    /\ mpc = "print"
    /\ ~ctxDone
    /\ workers = 2
    /\ Len(projects) = 3
    /\ IsDistinct(projects)
    /\ Len(results) = 3
    /\ results[1].project # projects[1]

\* C2: every job a worker dequeued yields exactly one result: until the
\* collector has appended it, it is in exactly one place (the worker, the
\* result channel, the collector's hand), and when the pool returns every
\* RunAnalysis call has exactly one entry in the result slice and one count
\* in Stats -- also when the deadline fired during the call.
C2_OneResultPerDequeuedJob ==
    /\ \A n \in NameSet : scanCalls[n] = InPipeline(n)
    /\ PoolEntered =>
          stats.successful + stats.failed = Len(results)
    /\ PoolReturned =>
          /\ \A n \in NameSet : Count(results, n) = scanCalls[n]
          /\ \A w \in WorkerIds : wpc[w] \notin {"scan", "send"}
          /\ resultCh = <<>> /\ cur = NoResult

C2_Witness ==
    /\ mpc = "print"
    /\ firedInFlight
    /\ Len(results) >= 2
    /\ Len(results) < Len(projects)

\* C3: once the deadline has fired, the feeder enqueues no further job
\* (so a job not enqueued by then is never dispatched and has no result).
C3_NoEnqueueAfterDeadline ==
    [][ctxDone => (fidx' = fidx /\ Len(projectCh') <= Len(projectCh))]_vars

\* C4: with fair scheduling and RunAnalysis calls that return, the run ends,
\* whenever the deadline fires or if it never does.
C4_RunEnds == <>(mpc = "exited")

C4_Witness ==
    /\ mpc = "exited"
    /\ PoolEntered
    /\ ctxDone
    /\ fidx = 1
    /\ Len(projects) >= 2
    /\ results = <<>>

\* C5: the result channel is closed only after all workers have returned,
\* the pool returns only with the channel closed and drained, and neither
\* Stats nor the result slice changes after the return.
C5_DoneAfterWorkers ==
    /\ [](/\ resultChClosed =>
                /\ Cardinality(Started) = workers
                /\ \A w \in Started : wpc[w] = "returned"
                /\ wg = 0
          /\ PoolReturned => (resultChClosed /\ resultCh = <<>> /\ cur = NoResult))
    /\ [][PoolReturned => (stats' = stats /\ results' = results)]_vars

C5_Witness ==
    /\ mpc = "print"
    /\ workers = 2
    /\ Len(results) >= 2
    /\ \A w \in 1..2 : wpc[w] = "returned"

\* C6: exactly N workers are started and at most N RunAnalysis calls are
\* in progress at any time.
C6_AtMostNScans ==
    /\ Cardinality(Started) <= workers
    /\ mpc \notin {"start", "init", "spawn"} /\ PoolEntered
          => Cardinality(Started) = workers
    /\ Cardinality(Scanning) <= workers

C6_Witness ==
    /\ workers = 2
    /\ Cardinality(Scanning) = 2
    /\ projectCh # <<>>

\* The steps the collector can take at the head of its range loop.
Collector == CollectorReceive \/ CollectorReturn

\* C7 as claimed, in the case the claim singles out: once the context is
\* cancelled the collector waiting at its range loop is not blocked, even
\* while a RunAnalysis call is in flight.
C7_CancelEndsWait ==
    (mpc = "range" /\ ctxDone /\ Scanning # {}) => ENABLED Collector

\* C7 as amended: the collector leaves its loop only when the result channel
\* is closed; cancelling the context does not end the wait, and while a
\* RunAnalysis call is in flight the pool has not returned.
C7_WaitsForInFlightScans ==
    (\E w \in WorkerIds : wpc[w] \in {"scan", "send"}) => ~PoolReturned

C7_Witness ==
    /\ mpc = "range"
    /\ ctxDone
    /\ Scanning # {}
    /\ resultCh = <<>>
    /\ ~resultChClosed
    /\ ~ENABLED Collector

\* C8: if the deadline fires before any RunAnalysis call has returned and
\* M > N + 2N, fewer than M results are collected.
C8_FewerResultsThanJobs ==
    (PoolReturned /\ firedEarly /\ Len(projects) > workers + ChanCap(workers))
        => Len(results) < Len(projects)

\* C9: a job the deadline kept from being dispatched counts neither as
\* successful nor as failed: failed is the number of collected results with
\* an error, successful the number without, and the exit status is 1 iff a
\* collected result has an error.
C9_ExitReflectsRecorded ==
    (PoolEntered /\ mpc = "exited")
        => /\ stats.failed = Failures(results)
           /\ stats.successful = Len(results) - Failures(results)
           /\ exitCode = (IF Failures(results) > 0 THEN 1 ELSE 0)

C9_Witness ==
    /\ mpc = "exited"
    /\ ctxDone
    /\ Len(results) >= 1
    /\ Len(results) < Len(projects)
    /\ Failures(results) = 0
    /\ exitCode = 0

\* C10: no project name is passed to RunAnalysis more than once in a run.
C10_NoDoubleDispatch ==
    \A n \in NameSet : scanCalls[n] <= 1

\* C11: in every state of a run successful + failed is the number of results
\* the collector has recorded so far, which never exceeds totalProjects; once
\* the pool has returned it is the length of the returned sequence.
C11_CountersMatchRecorded ==
    /\ stats.successful + stats.failed = Len(results)
    /\ stats.successful + stats.failed <= stats.totalProjects
    /\ PoolReturned => Len(results) = stats.successful + stats.failed

C11_Witness ==
    /\ PoolReturned
    /\ stats.successful >= 1
    /\ stats.failed >= 1
    /\ Len(results) = stats.totalProjects

\* C15: the exit status is 1 if a collected job failed or the resolution
\* ended in a fatal error, and 0 otherwise (every dispatched job succeeded,
\* or there was nothing to analyze); no status is set while the pool runs.
C15_ExitStatus ==
    /\ mpc = "exited"
        => exitCode = (IF resolved = "fatal" \/ Failures(results) > 0 THEN 1 ELSE 0)
    /\ (PoolEntered /\ ~PoolReturned) => exitCode = -1

C15_Witness ==
    /\ mpc = "exited"
    /\ resolved = "ok"
    /\ Failures(results) >= 1
    /\ Failures(results) < Len(results)
    /\ exitCode = 1

\* C16: a RunAnalysis error is one failed result and nothing else. A worker
\* returns only when the context is cancelled or the job channel is closed,
\* whatever errors it got; failed counts exactly the collected results with
\* an error; and without a deadline every job of the run is collected
\* whether or not some of them failed.
C16_ErrorsAreIsolated ==
    /\ \A w \in WorkerIds : wpc[w] = "returned" => (ctxDone \/ projectChClosed)
    /\ stats.failed = Failures(results)
    /\ (PoolReturned /\ ~ctxDone /\ Failures(results) > 0)
        => /\ Len(results) = Len(projects)
           /\ \A n \in NameSet : Count(results, n) = scanCalls[n]

\* The only worker of the run has delivered a failed result and is scanning
\* the next job.
C16_Witness ==
    /\ workers = 1
    /\ ~ctxDone
    /\ Failures(results) >= 1
    /\ wpc[1] = "scan"

\* C17: when the nx query of the resolution fails (list, single, all or
\* affected mode) the run has ended with exit status 1, Stats was never
\* initialized, no worker was started, RunAnalysis was never called and no
\* notifier was called.
C17_ResolutionErrorAborts ==
    nxFailed
        => /\ mpc = "exited"
           /\ exitCode = 1
           /\ stats = [totalProjects |-> 0, successful |-> 0, failed |-> 0]
           /\ workers = 0
           /\ Started = {}
           /\ \A n \in NameSet : scanCalls[n] = 0
           /\ notified.calls = <<>>

C17_Witness ==
    /\ nxFailed
    /\ resolved = "fatal"
    /\ mpc = "exited"
    /\ exitCode = 1

\* C18: a run that looked a project up in a configuration that failed to
\* load (in the mapping filter of the resolution or at the start of
\* RunAnalysis) never ends with exit status 0.
C18_ConfigErrorIsFatal ==
    (mpc = "exited" /\ config.err /\ lookups) => exitCode # 0

\* The names of the notifier calls made, in order
RECURSIVE CallNames(_)
CallNames(calls) ==
    IF calls = <<>> THEN <<>> ELSE <<Head(calls).call>> \o CallNames(Tail(calls))

\* C19: the exit status of a run whose pool has returned depends on the
\* collected results only, whatever the notifiers did; and every enabled
\* notifier is called, in order, whether or not an earlier one failed.
C19_NotifiersDoNotDecide ==
    (PoolReturned /\ mpc = "exited")
        => /\ exitCode = (IF Failures(results) > 0 THEN 1 ELSE 0)
           /\ CallNames(notified.calls) =
                  (IF notified.email THEN <<"SendHTMLReport">> ELSE <<>>)
                  \o (IF notified.github
                      THEN <<"CreateIssues", "CreateCommitStatus">> ELSE <<>>)

\* All three notifiers were called, the first two failed, the run had no
\* failed job and exits with 0.
C19_Witness ==
    /\ mpc = "exited"
    /\ Len(results) >= 1
    /\ Failures(results) = 0
    /\ exitCode = 0
    /\ Len(notified.calls) = 3
    /\ notified.calls[1].err
    /\ notified.calls[2].err
    /\ notified.calls[3].call = "CreateCommitStatus"

\* C12: whenever no recordResult call is in progress, successful, failed,
\* vulnerabilities, totalDuration and maxDuration of the shared Stats equal
\* those of the same calls run one after the other; and no step of any
\* interleaving lowers maxDuration.
C12_MatchesSingleThreaded ==
    /\ [](Quiescent =>
            /\ st.successful = ref.successful
            /\ st.failed = ref.failed
            /\ st.vulnerabilities = ref.vulnerabilities
            /\ st.totalDuration = ref.totalDuration
            /\ st.maxDuration = ref.maxDuration)
    /\ [][st'.maxDuration >= st.maxDuration]_vars

\* A caller is about to compare-and-swap with a stale old value: another
\* caller has raised maxDuration since the load, to less than this caller's
\* duration, so the swap fails and the retry has to store.
C12_Witness ==
    \E c \in Callers :
        /\ rec[c].pc = "cas"
        /\ rec[c].old < st.maxDuration
        /\ st.maxDuration < rec[c].duration
        /\ st.successful + st.failed = MaxCallers

\* C13: after initialize and at least one recordResult call that has
\* returned (none in progress), minDuration <= totalDuration divided by
\* successful + failed <= maxDuration.
C13_MinAvgMax ==
    (Quiescent /\ Returned # {})
        => LET avgDuration == st.totalDuration \div (st.successful + st.failed)
           IN  /\ st.minDuration <= avgDuration
               /\ avgDuration <= st.maxDuration

\* Two calls with different durations, the average strictly between.
C13_Witness ==
    /\ Returned = Callers
    /\ st.minDuration < st.totalDuration \div (st.successful + st.failed)
    /\ st.totalDuration \div (st.successful + st.failed) < st.maxDuration

\* C14: when nothing was recorded, the report shows neither the minimum nor
\* the maximum nor the average duration.
C14_NoDurationsWithoutResults ==
    (report.printed /\ report.count = 0)
        => /\ ~report.min.shown
           /\ ~report.max.shown
           /\ ~report.avg.shown

\* C20: after the changed-files diff or the graph query has failed, in this
\* call or an earlier one, a ShouldSkipProject call with forceAll false and
\* base and head set returns false.
C20_FailsOpen ==
    (/\ last.n > 0
     /\ ~last.forceAll
     /\ last.base # "" /\ last.head # ""
     /\ caches.diffFailed \/ caches.graphFailed)
        => ~last.skip

\* C21: every call of GetChangedFiles and of GetProjectGraph returns the
\* outcome of the call that ran the initializer: the same value and the same
\* error status.
C21_SameOutcomeAsFirstCaller ==
    /\ ret.fn = "GetChangedFiles"
        => /\ ret.err = caches.diffFailed
           /\ ret.files = caches.changedFilesCache
    /\ ret.fn = "GetProjectGraph"
        => /\ ret.err = caches.graphFailed
           /\ ret.graph = caches.projectGraphCache

\* C22: a GetChangedFiles call with a pair other than the pair of the first
\* call (which succeeded) returns the change set git diff gives for its own
\* pair.
C22_ChangeSetOfThePairPassed ==
    (/\ ret.fn = "GetChangedFiles"
     /\ ~caches.diffFailed
     /\ <<ret.base, ret.head>> # caches.pair
     /\ ~ret.truth.err)
        => ret.files = SlashPaths(ret.truth.files)

\* The number of times an external command was run
Asked(command) ==
    Cardinality({i \in 1..Len(caches.queries) : caches.queries[i] = command})

Under(file, root) ==
    \/ file = root
    \/ /\ Len(file) > Len(root)
       /\ SubSeq(file, 1, Len(root)) = root
       /\ file[Len(root) + 1] = "/"

\* C25: GetChangedProjectsUsingGraph reports exactly the projects of the
\* graph with a changed file that equals the normalized root or lies below
\* it; a file that shares only a string prefix with a root marks nothing.
C25_ChangedIffUnderRoot ==
    (ret.fn = "GetChangedProjectsUsingGraph" /\ ~ret.err /\ ret.files # <<>>)
        => /\ ret.projects =
                {node.name : node \in
                    {n \in ret.graph : \E i \in 1..Len(ret.files) :
                        Under(ret.files[i], ReplaceAll(n.root, "\\", "/"))}}
           /\ (\A i \in 1..Len(ret.files) : ret.files[i] = <<"p", "q", "x">>)
                => ret.projects = {}

\* Files pq and pqx changed: project b (root pq) is reported, project a
\* (root p) is not.
C25_Witness ==
    /\ ret.fn = "GetChangedProjectsUsingGraph"
    /\ ~ret.err
    /\ ret.files = << <<"p", "q">>, <<"p", "q", "x">> >>
    /\ ret.graph = GraphNodes
    /\ ret.projects = {AllNames[2]}

\* C23: the inventory command succeeds at most once per process and is not
\* run by any call once the cache is loaded: a call begun after the load, and
\* a call in progress during it, return the cached list without running the
\* command, in every interleaving of the callers.
C23_InventoryLoadedOnce ==
    /\ inv.succeeded <= 1
    /\ inv.allProjectsLoaded => inv.succeeded = 1
    /\ \A c \in Callers :
        /\ gp[c].pc = "command" => ~inv.allProjectsLoaded
        /\ (gp[c].pc = "idle" /\ gp[c].n = 1 /\ ~gp[c].out.err)
            => /\ inv.allProjectsLoaded
               /\ gp[c].out.projects = inv.allProjectsCache
        /\ (gp[c].pc = "idle" /\ gp[c].n = 1 /\ gp[c].loadedBefore)
            => ~gp[c].asked /\ ~gp[c].out.err

\* Two callers were in GetProjects together: one ran the command and loaded
\* the cache, the other found it loaded under the write lock and returned
\* it without running the command.
C23_Witness ==
    /\ inv.invoked = 1
    /\ inv.calls = 2
    /\ \A c \in Callers : gp[c].pc = "idle" /\ gp[c].n = 1
    /\ \E c, d \in Callers :
        /\ gp[c].asked
        /\ ~gp[d].asked /\ ~gp[d].loadedBefore
        /\ gp[d].out = NxOk(Prefix(2))

\* C26: GetProjectsFromList partitions the entries of the list: with the
\* entries cut at the commas, stripped of surrounding blanks and the empty
\* ones dropped, valid is the entries in the universe and invalid the
\* others, both in input order, and together they are all the entries.
C26_PartitionsTheList ==
    LET str == pl.projectsList
        commas == {i \in 1..Len(str) : str[i] = ","}
        \* the k-th comma; 0 and Len(str) + 1 stand at the two ends
        cut(k) == IF k = 0 THEN 0
                  ELSE IF k > Cardinality(commas) THEN Len(str) + 1
                  ELSE CHOOSE i \in commas :
                           Cardinality({j \in commas : j < i}) = k - 1
        stripped(e) ==
            LET solid == {i \in 1..Len(e) : e[i] # " "}
            IN  IF solid = {} THEN <<>>
                ELSE SubSeq(e, CHOOSE i \in solid : \A j \in solid : i <= j,
                               CHOOSE i \in solid : \A j \in solid : j <= i)
        entries == [k \in 1..(Cardinality(commas) + 1) |->
                        stripped(SubSeq(str, cut(k - 1) + 1, cut(k) - 1))]
        names == SelectSeq(entries, LAMBDA e : e # <<>>)
    IN  (pl.n = 1 /\ ~pl.err)
            => /\ pl.valid = SelectSeq(names, LAMBDA e : e \in pl.universe)
               /\ pl.invalid = SelectSeq(names, LAMBDA e : e \notin pl.universe)
               /\ Len(pl.valid) + Len(pl.invalid) = Len(names)

\* The list "b,a" against the universe {a}: a is valid, b is invalid.
C26_Witness ==
    /\ pl.n = 1
    /\ pl.projectsList = <<"b", ",", "a">>
    /\ pl.universe = {AllNames[1]}
    /\ pl.valid = <<AllNames[1]>>
    /\ pl.invalid = <<AllNames[2]>>

\* C27: when --project is given together with --all, --base or --head the
\* run ends with exit status 1 and has made no nx query, no configuration
\* lookup, resolved no project and dispatched nothing: no worker, no job
\* and no scan.
C27_FlagConflictAbortsFirst ==
    flags.conflict
        => /\ mpc = "exited"
           /\ exitCode = 1
           /\ resolved = "fatal"
           /\ flags.queries = 0
           /\ ~nxFailed
           /\ ~lookups
           /\ projects = <<>>
           /\ spawned = 0
           /\ projectCh = <<>>
           /\ \A n \in NameSet : scanCalls[n] = 0
           /\ results = <<>>
           /\ notified = NoNotification

\* A run with conflicting flags has ended.
C27_Witness ==
    /\ flags.conflict
    /\ mpc = "exited"
    /\ exitCode = 1
    /\ flags.queries = 0

\* C28: without --include-unmapped only mapped projects are dispatched, in
\* every mode; with it a dispatched project that is not in the
\* configuration is analyzed like a mapped one: RunAnalysis does not turn it
\* away for being unmapped.
C28_UnmappedAreAnalyzed ==
    /\ (job.pc # "start" /\ ~job.includeUnmapped)
        => \A p \in Range(job.projects) : IsProjectMapped(job.config, p)
    /\ (job.n = 1 /\ job.includeUnmapped
            /\ ~IsProjectMapped(job.config, job.project))
        => job.stage # "unmapped"

\* C29: with --base and --head set, a resolved project without a changed
\* file between them is not scanned and its result is a success.
C29_UnchangedProjectsAreSkipped ==
    (job.n = 1 /\ job.revs /\ ~job.changed)
        => job.stage # "fossa" /\ ~job.err

\* C30: after initialize and at least one recordResult call (none in
\* progress), minDuration is the smallest duration passed, maxDuration the
\* largest, and the average printed is totalDuration divided by the number
\* of results, whatever the durations.
C30_MinMaxAvgOfRecorded ==
    (Quiescent /\ Returned # {})
        => /\ st.minDuration = ref.least
           /\ st.maxDuration = ref.most
           /\ report.printed
                => report.avg.value = ref.totalDuration \div Cardinality(Returned)

\* C31: initialize(total) on a Stats that recordResult calls have used
\* leaves totalProjects = total, successful, failed, vulnerabilities,
\* totalDuration and maxDuration at zero and minDuration at the hour.
C31_InitializeResetsAll ==
    ref.inits = 1
        => st = [totalProjects |-> ref.totalProjects, successful |-> 0,
                 failed |-> 0, vulnerabilities |-> 0, totalDuration |-> 0,
                 maxDuration |-> 0, minDuration |-> Hour]

\* C32: the results sequence is in the order in which the workers sent
\* the results on resultCh: it is the sent results up to the one the
\* collector holds, then come the one it holds and those waiting in the
\* channel; when the pool returns it is all of them. Each result is
\* recorded in Stats and appended before the next is received.
C32_CompletionOrder ==
    /\ sendLog = results \o (IF cur = NoResult THEN <<>> ELSE <<cur>>) \o resultCh
    /\ PoolReturned => results = sendLog
    /\ mpc = "range" => cur = NoResult
    /\ (PoolEntered /\ mpc \in {"range", "record"})
        => stats.successful + stats.failed = Len(results)

\* The pool has returned two results in the reverse of the order in which
\* their jobs were submitted.
C32_Witness ==
    /\ PoolReturned
    /\ projects = <<AllNames[1], AllNames[2]>>
    /\ Len(results) = 2
    /\ results[1].project = AllNames[2]
    /\ results[2].project = AllNames[1]
    /\ results = sendLog

\* C33: ShouldSkipProject returns false without computing anything when
\* forceAll is set or base and head are both empty; otherwise, when the
\* change set is computed without error, it returns true exactly when the
\* project has no changed file between the base and head of the call.
C33_SkipsIffUnchanged ==
    last.n = 1
        => /\ (last.forceAll \/ (last.base = "" /\ last.head = ""))
                => ~last.skip /\ ~last.touched
           /\ last.ok => (last.skip <=> ~last.changed)

\* C34 as stated: in a GetProjectGraph call nx dep-graph is run only after
\* nx graph has failed and at most once; the call returns an error only if
\* both commands failed; and when the fallback succeeds the graph is
\* returned and cached without error.
C34_ErrorOnlyIfBothFail ==
    ret.fn = "GetProjectGraph"
        => /\ ret.asked = 2 => ret.query.primaryErr
           /\ Asked("dep-graph") <= 1
           /\ ret.err => (ret.query.primaryErr /\ ret.query.fallbackErr)
           /\ (ret.query.primaryErr /\ ~ret.query.fallbackErr)
                => /\ ~ret.err
                   /\ ret.graph # {}
                   /\ ret.graph = caches.projectGraphCache

\* C34 amended: nx dep-graph is run only after nx graph has failed, at most
\* once per process and never when nx graph succeeded; the call that runs
\* the queries returns an error exactly when the temporary file could not
\* be created, both commands failed, or the output could not be read or
\* parsed; when the fallback succeeds and its output parses, the graph is
\* returned and cached without error.
C34_FallbackAfterPrimaryOnly ==
    ret.fn = "GetProjectGraph"
        => /\ ret.asked = 2 <=> (ret.query.ran /\ ret.query.primaryErr)
           /\ Asked("dep-graph") <= 1
           /\ Asked("dep-graph") <= Asked("graph")
           /\ ret.query.ran
                => (ret.err <=> \/ ret.query.tempErr
                                \/ ret.query.primaryErr /\ ret.query.fallbackErr
                                \/ ret.query.parseErr)
           /\ (ret.query.primaryErr /\ ~ret.query.fallbackErr /\ ~ret.query.parseErr)
                => /\ ~ret.err
                   /\ ret.graph # {}
                   /\ ret.graph = caches.projectGraphCache

\* nx graph failed, nx dep-graph succeeded: the graph came back without error.
C34_Witness ==
    /\ ret.fn = "GetProjectGraph"
    /\ ret.query.primaryErr /\ ~ret.query.fallbackErr /\ ~ret.query.parseErr
    /\ ret.asked = 2
    /\ ~ret.err
    /\ ret.graph = GraphNodes
    /\ caches.projectGraphCache = GraphNodes

\* C35: in affected mode GetProjects forwards base to the external query
\* whenever base is not empty and head whenever head is not empty, forwards
\* nothing only when both are empty, and the markers that restrict its query
\* are those that restrict the git diff of GetChangedFiles(base, head).
C35_MarkersForwarded ==
    aff.n = 1
        => LET Markers(args) == UNION {Range(a.args) : a \in Range(args)}
           IN  /\ aff.base # ""
                    => Sprintf("--base=%s", <<aff.base>>) \in Range(aff.args)
               /\ aff.head # ""
                    => Sprintf("--head=%s", <<aff.head>>) \in Range(aff.args)
               /\ (aff.base = "" /\ aff.head = "") => Markers(aff.args) = {}
               /\ Markers(aff.args) = Markers(DiffArgs(aff.base, aff.head))

\* C36: in the earlier processProjectsOptimized the feeder sends no project
\* once it has taken the ctx.Done case of its select.
C36_NoSendAfterExpiryObserved == ~early.sentAfter

\* C37: in processProjectsOptimized, under every interleaving and deadline
\* timing: the job channel is closed once, by the feeder as it returns, and
\* the result channel once, by the closer as it returns; nothing is sent on
\* a closed channel; at most 2N jobs are queued; the WaitGroup counter is
\* never negative.
C37_NoChannelPanic ==
    /\ [](/\ Len(projectCh) <= ChanCap(workers)
          /\ wg >= 0
          /\ projectChClosed <=> fpc = "returned"
          /\ resultChClosed <=> cpc = "returned")
    /\ [][/\ projectChClosed' # projectChClosed
                => ~projectChClosed /\ fpc = "loop" /\ fpc' = "returned"
          /\ resultChClosed' # resultChClosed
                => ~resultChClosed /\ cpc = "wait" /\ cpc' = "returned"
          /\ (fpc # "returned" /\ fpc' = "returned") => ~projectChClosed
          /\ (cpc # "returned" /\ cpc' = "returned") => ~resultChClosed
          /\ Len(projectCh') > Len(projectCh) => ~projectChClosed
          /\ Len(resultCh') > Len(resultCh) => ~resultChClosed]_vars

\* Both channels are closed after the deadline stopped the feeder with a
\* project unsent, the job queue still holding a project, a result collected.
C37_Witness ==
    /\ projectChClosed
    /\ resultChClosed
    /\ ctxDone
    /\ fidx <= Len(projects)
    /\ projectCh # <<>>
    /\ results # <<>>

\* C38: within a run Stats changes only in stats.initialize before the pool
\* and in the recordResult of the collector loop, one call for each result
\* received, made between the receive and the next receive; no worker
\* touches Stats, and when the run prints no result is left to record.
C38_OnlyTheCollectorRecords ==
    /\ [](/\ (mpc = "record") <=> (cur # NoResult)
          /\ (PoolEntered /\ mpc = "record")
                => stats.successful + stats.failed = Len(results)
          /\ PoolReturned
                => /\ resultCh = <<>>
                   /\ cur = NoResult
                   /\ \A w \in WorkerIds : wpc[w] \in {"unstarted", "returned"}
                   /\ stats.successful + stats.failed = Len(results))
    /\ [][stats' # stats
            => \/ /\ mpc = "init"
                  /\ mpc' = "spawn"
                  /\ stats' = initialize(Len(projects))
               \/ /\ mpc = "record"
                  /\ mpc' = "range"
                  /\ results' = Append(results, cur)
                  /\ stats' = recordResult(stats, ~cur.err)]_vars

\* The collector is recording its second result while a worker is in
\* RunAnalysis and another result waits in the channel.
C38_Witness ==
    /\ mpc = "record"
    /\ Len(results) = 1
    /\ resultCh # <<>>
    /\ \E w \in WorkerIds : wpc[w] = "scan"

\* C39: when RunAnalysis has returned, on whatever path, package.json and
\* node_modules of the project directory are what the call found.
C39_DirectoryAsFound ==
    \A c \in Callers :
        disk[c].pc = "returned"
            => /\ disk[c].packageJson = disk[c].pkgBefore
               /\ disk[c].nodeModules = disk[c].nmBefore

====
